---- MODULE Spec2Model ----
(***************************************************************************)
(* Model of the viewport follow-crop engine of vp-link: the appsink        *)
(* new_sample callbacks of vp-sndr (run_send_live) and vp-test             *)
(* (run_record_follow_live), the compositor cursor worker and the raw      *)
(* input poller.                                                           *)
(*                                                                         *)
(* Numbers.  f64 positions are fixed-point integers with Sub units per     *)
(* pixel; the blend factor alpha is fixed-point with AScale units per 1.0; *)
(* elapsed time is in microseconds; nanosecond timestamps are records      *)
(* [s, ns] (seconds, nanoseconds): the program computes them in u64, the   *)
(* model's integers are 32 bits wide.                                      *)
(***************************************************************************)
EXTENDS Integers, Sequences, FiniteSets, TLC

VARIABLES
    cfg,                \* session configuration (SendCfg / Record arguments), fixed per session
    st,                 \* FollowState
    cosmic_xy,          \* compositor cursor cell: Option<(f64, f64)>
    deltas,             \* raw-input accumulator: (f64, f64)
    input_frame_count,  \* vp-test: input frame counter
    out_idx,            \* emission counter (out_idx in vp-sndr, frame_count in vp-test)
    session,            \* "running", "failed" once a callback returned an error or
                        \* panicked, "ended" once the main loop left on EOS or deadline
    frames,             \* number of frames delivered to the callback so far
    last,               \* what the latest callback saw and did
    out_log,            \* the (pts, duration) of every buffer pushed downstream, in order
    out_data,           \* the rows of the latest output buffer built by the cropper
    unapplied,          \* relative motion read by the poller and not yet added to the cursor
    pipelines,          \* state of the input and of the output pipeline
    exit_code,          \* the ExitCode the session function returned, None while it runs
    pc,                 \* per thread: the statement it is at (lock-level view)
    held,               \* per thread: the mutexes whose guard it holds
    loc,                \* locals of the three threads (lock-level view)
    saved,              \* vp-sndr.toml: NoFile, Unparsable or the SenderConfig written in it
    send_cfg            \* vp-sndr: the SendCfg main handed to run_send, None outside a session

vars == <<cfg, st, cosmic_xy, deltas, input_frame_count, out_idx, session,
          frames, last, out_log, out_data, unapplied, pipelines, exit_code,
          pc, held, loc, saved, send_cfg>>

\* ------------------------------------------------------------------ bounds
MaxFrames == 5
MaxAcc == 3

\* ------------------------------------------------------------ number model
Sub == 100
AScale == 100000000
AHalf == 10000
USEC_PER_SEC == 1000000
NSEC_PER_SEC == 1000000000

None == <<>>
Some(v) == <<v>>
IsSome(o) == o # <<>>
Unwrap(o) == o[1]

Abs(v) == IF v < 0 THEN -v ELSE v
Sign(v) == IF v < 0 THEN -1 ELSE 1
Min(a, b) == IF a < b THEN a ELSE b
Max(a, b) == IF a > b THEN a ELSE b
Px(n) == n * Sub

\* f64::clamp(min, max)
Clamp(v, lo, hi) == IF v < lo THEN lo ELSE IF v > hi THEN hi ELSE v

\* f64::round() as usize, of a non-negative fixed-point value: nearest pixel, half up
RoundPx(v) == (v + (Sub \div 2)) \div Sub

\* a * b / AScale for a, b in 0..AScale, floor, without leaving 32 bits
MulA(a, b) ==
    LET ah == a \div AHalf
        al == a % AHalf
        bh == b \div AHalf
        bl == b % AHalf
    IN  (ah * bh) + (((ah * bl) + (al * bh) + ((al * bl) \div AHalf)) \div AHalf)

\* d * alpha / AScale rounded to nearest, d >= 0 a position difference
MulRound(d, alpha) ==
    LET bh == alpha \div AHalf
        bl == alpha % AHalf
        q == (d * bh) + ((d * bl) \div AHalf)
        r == ((q % AHalf) * AHalf) + ((d * bl) % AHalf)
    IN  (q \div AHalf) + (IF 2 * r >= AScale THEN 1 ELSE 0)

\* exp(-x) for 0 <= x <= 1/2 by its Taylor series; x and the result in AScale units
RECURSIVE TaylorNeg(_, _, _, _)
TaylorNeg(x, term, n, acc) ==
    IF term = 0 THEN acc
    ELSE LET nt == MulA(term, x) \div n
         IN  TaylorNeg(x, nt, n + 1, IF n % 2 = 1 THEN acc - nt ELSE acc + nt)

RECURSIVE ExpNegScaled(_)
ExpNegScaled(x) ==
    IF x <= AScale \div 2 THEN TaylorNeg(x, AScale, 1, AScale)
    ELSE LET h == ExpNegScaled(x \div 2) IN MulA(h, h)

\* exp(y) for 0 <= y <= 1 by its Taylor series; y and the result in AScale units
RECURSIVE TaylorPos(_, _, _, _)
TaylorPos(y, term, n, acc) ==
    IF term = 0 THEN acc
    ELSE LET nt == MulA(term, y) \div n
         IN  TaylorPos(y, nt, n + 1, acc + nt)

\* f64::exp(-x), x in millionths; below the resolution of AScale it is 0.  A
\* negative x (a negative smoothing) gives exp of a positive number, modelled
\* up to exp(1)
ExpNeg(xMicro) ==
    IF xMicro >= 20 * USEC_PER_SEC THEN 0
    ELSE IF xMicro < 0 THEN TaylorPos(Min(-xMicro, USEC_PER_SEC) * (AScale \div USEC_PER_SEC), AScale, 1, AScale)
    ELSE ExpNegScaled(xMicro * (AScale \div USEC_PER_SEC))


\* --------------------------------------------------------------- timestamps
\* a nanosecond count as [s, ns] with 0 <= ns < NSEC_PER_SEC
TsNorm(sec, nsec) == [s |-> sec + (nsec \div NSEC_PER_SEC), ns |-> nsec % NSEC_PER_SEC]
TsAdd(a, b) == TsNorm(a.s + b.s, a.ns + b.ns)
TsLess(a, b) == a.s < b.s \/ (a.s = b.s /\ a.ns < b.ns)

\* 1_000_000_000u64 / output_fps
FrameDuration(output_fps) == TsNorm(0, NSEC_PER_SEC \div output_fps)

\* a pts computed in whole microseconds
FramePtsMicros(idx, output_fps) ==
    LET us == (USEC_PER_SEC * idx) \div output_fps
    IN  TsNorm(us \div USEC_PER_SEC, (us % USEC_PER_SEC) * 1000)

\* (1_000_000_000u64 * idx) / output_fps, exactly: with 1e9 = q*fps + r and
\* idx = a*fps + m the quotient is a seconds and q*m + (r*m)/fps nanoseconds
FramePts(idx, output_fps) ==
    LET q == NSEC_PER_SEC \div output_fps
        r == NSEC_PER_SEC % output_fps
        m == idx % output_fps
    IN  TsNorm(idx \div output_fps, (q * m) + ((r * m) \div output_fps))

\* ------------------------------------------------------------ configuration
\* run_send: cfg.fps.max(1); run_record: fps / keep_every, 1 if that is 0
OutputFps(c) ==
    IF c.bin = "sndr" THEN Max(c.fps, 1)
    ELSE LET keep_every == c.frame_skip + 1
             output_fps == c.fps \div keep_every
         IN  IF output_fps = 0 THEN 1 ELSE output_fps

InitialCenter(origin, extent) == Px(origin) + (Px(extent) \div 2)

InitFollowState(c) ==
    [center_x |-> InitialCenter(c.x, c.width),
     center_y |-> InitialCenter(c.y, c.height),
     cursor_x |-> InitialCenter(c.x, c.width),
     cursor_y |-> InitialCenter(c.y, c.height),
     target_x |-> InitialCenter(c.x, c.width),
     target_y |-> InitialCenter(c.y, c.height),
     is_lerping |-> FALSE,
     follow_active |-> FALSE]

\* ---------------------------------------------------- cursor signal sources
\* read_xy_from_structure: m.xy is None when the structure has no numeric x or y
read_xy_from_structure(m, src_w, src_h) ==
    IF ~IsSome(m.xy) THEN None
    ELSE LET x_num == Unwrap(m.xy).x
             y_num == Unwrap(m.xy).y
         IN  IF x_num >= 0 /\ y_num >= 0 /\ x_num <= Px(src_w) /\ y_num <= Px(src_h)
             THEN Some([x |-> x_num, y |-> y_num])
             ELSE IF x_num >= 0 /\ y_num >= 0 /\ x_num <= Sub /\ y_num <= Sub
             THEN Some([x |-> x_num * src_w, y |-> y_num * src_h])
             ELSE None

RECURSIVE extract_cursor_from_sample(_, _, _)
extract_cursor_from_sample(metas, src_w, src_h) ==
    IF metas = <<>> THEN None
    ELSE LET m == Head(metas)
             r == IF m.looks_cursor THEN read_xy_from_structure(m, src_w, src_h) ELSE None
         IN  IF IsSome(r) THEN r
             ELSE extract_cursor_from_sample(Tail(metas), src_w, src_h)

\* a drain that adds the accumulator to the cursor and forgets to zero it
DrainKeepsAccumulator(s, acc, how) ==
    [st |-> [s EXCEPT !.cursor_x = @ + acc.dx, !.cursor_y = @ + acc.dy],
     deltas |-> acc, used |-> how]

\* a drain that zeroes the accumulator without adding it to the cursor
DrainDiscards(s, acc, how) == [st |-> s, deltas |-> [dx |-> 0, dy |-> 0], used |-> how]

\* d = deltas.lock(); st.cursor += d; d = (0.0, 0.0)
Drain(s, acc, how) ==
    [st |-> [s EXCEPT !.cursor_x = @ + acc.dx, !.cursor_y = @ + acc.dy],
     deltas |-> [dx |-> 0, dy |-> 0], used |-> how]

SetCursor(s, acc, xy, how) ==
    [st |-> [s EXCEPT !.cursor_x = xy.x, !.cursor_y = xy.y], deltas |-> acc, used |-> how]

\* vp-sndr: three guarded blocks in sequence
\* an aggregator that throws the accumulated motion away whenever metadata or
\* the compositor supplied the position
SndrAggregateDropsStale(c, s, f, cell, acc) ==
    IF ~c.follow_mouse THEN [st |-> s, deltas |-> acc, used |-> "none"]
    ELSE LET meta == extract_cursor_from_sample(f.metas, f.w, f.h)
             zero == [dx |-> 0, dy |-> 0]
         IN  IF IsSome(meta) THEN SetCursor(s, zero, Unwrap(meta), "meta")
             ELSE IF c.cosmic_cursor /\ IsSome(cell)
             THEN SetCursor(s, zero, Unwrap(cell), "cosmic")
             ELSE IF c.mouse_deltas THEN Drain(s, acc, "delta")
             ELSE [st |-> s, deltas |-> acc, used |-> "none"]

SndrAggregate(c, s, f, cell, acc) ==
    IF ~c.follow_mouse THEN [st |-> s, deltas |-> acc, used |-> "none"]
    ELSE LET meta == extract_cursor_from_sample(f.metas, f.w, f.h)
             used_stream_meta == IsSome(meta)
             s1 == IF used_stream_meta THEN SetCursor(s, acc, Unwrap(meta), "meta")
                   ELSE [st |-> s, deltas |-> acc, used |-> "none"]
             used_cosmic == ~used_stream_meta /\ c.cosmic_cursor /\ IsSome(cell)
             s2 == IF used_cosmic THEN SetCursor(s1.st, acc, Unwrap(cell), "cosmic") ELSE s1
         IN  IF ~used_stream_meta /\ ~used_cosmic /\ c.mouse_deltas
             THEN Drain(s2.st, acc, "delta")
             ELSE s2

TestAggregateDrainsAlways(c, s, f, cell, acc) ==
    LET meta == extract_cursor_from_sample(f.metas, f.w, f.h)
    IN  IF c.mouse_deltas /\ (acc.dx # 0 \/ acc.dy # 0) THEN Drain(s, acc, "delta")
        ELSE IF IsSome(meta) THEN SetCursor(s, acc, Unwrap(meta), "meta")
        ELSE IF c.cosmic_cursor /\ IsSome(cell) THEN SetCursor(s, acc, Unwrap(cell), "cosmic")
        ELSE [st |-> s, deltas |-> acc, used |-> "none"]

\* an aggregator that falls back to the middle of the frame when no source yields
TestAggregateCentersWhenLost(c, s, f, cell, acc) ==
    LET meta == extract_cursor_from_sample(f.metas, f.w, f.h)
        lost == [st |-> [s EXCEPT !.cursor_x = Px(f.w) \div 2, !.cursor_y = Px(f.h) \div 2],
                 deltas |-> acc, used |-> "none"]
    IN  IF IsSome(meta) THEN SetCursor(s, acc, Unwrap(meta), "meta")
        ELSE IF c.cosmic_cursor
        THEN IF IsSome(cell) THEN SetCursor(s, acc, Unwrap(cell), "cosmic")
             ELSE IF c.mouse_deltas THEN Drain(s, acc, "delta")
             ELSE lost
        ELSE IF c.mouse_deltas THEN Drain(s, acc, "delta")
        ELSE lost

\* vp-test: if / else-if / else chain
TestAggregate(c, s, f, cell, acc) ==
    LET meta == extract_cursor_from_sample(f.metas, f.w, f.h)
    IN  IF IsSome(meta) THEN SetCursor(s, acc, Unwrap(meta), "meta")
        ELSE IF c.cosmic_cursor
        THEN IF IsSome(cell) THEN SetCursor(s, acc, Unwrap(cell), "cosmic")
             ELSE IF c.mouse_deltas THEN Drain(s, acc, "delta")
             ELSE [st |-> s, deltas |-> acc, used |-> "none"]
        ELSE IF c.mouse_deltas THEN Drain(s, acc, "delta")
        ELSE [st |-> s, deltas |-> acc, used |-> "none"]

\* st.cursor.clamp(0.0, src.saturating_sub(1))
ClampCursor(s, src_w, src_h) ==
    [s EXCEPT !.cursor_x = Clamp(@, 0, Px(Max(src_w - 1, 0))),
              !.cursor_y = Clamp(@, 0, Px(Max(src_h - 1, 0)))]


\* --------------------------------------------------------- follow controller
DEFAULT_CURSOR_CHANGE_EPSILON_PX == Sub \div 4
DEFAULT_SETTLE_EPSILON_PX == (3 * Sub) \div 4

\* (now - st.last_frame_at).as_secs_f64().max(0.000_001), in microseconds
EffectiveDt(dt) == Max(dt, 1)

\* a blend factor that grows linearly with dt
AlphaLinear(smoothing, dt) ==
    IF smoothing * dt >= USEC_PER_SEC THEN AScale ELSE smoothing * dt * (AScale \div USEC_PER_SEC)

\* 1.0 - (-smoothing * dt).exp()
AlphaOf(smoothing, dt) == AScale - ExpNeg(smoothing * dt)

\* center += (target - center) * alpha
Lerp(center, target, alpha) ==
    center + (Sign(target - center) * Sign(alpha) * MulRound(Abs(target - center), Abs(alpha)))

\* (cfg_width as f64) * (cfg_deadzone / 100.0) / 2.0
DeadzoneHalf(extent, deadzone) == (Px(extent) * deadzone) \div 200

PullToCursor(cursor, center, dz_half) ==
    IF cursor < center - dz_half THEN cursor + dz_half
    ELSE IF cursor > center + dz_half THEN cursor - dz_half
    ELSE cursor

PullPastCursor(cursor, center, dz_half) ==
    IF cursor < center - dz_half THEN cursor - dz_half
    ELSE IF cursor > center + dz_half THEN cursor + dz_half
    ELSE center

\* the target of one axis when the deadzone is on
PullToDeadzone(cursor, center, dz_half) ==
    IF cursor < center - dz_half THEN cursor + dz_half
    ELSE IF cursor > center + dz_half THEN cursor - dz_half
    ELSE center

\* a retarget step that reacts to any cursor change, however small
SndrRetargetIgnoresEpsilon(c, s, prev_cursor_x, prev_cursor_y) ==
    IF c.follow_mouse
    THEN IF s.cursor_x = prev_cursor_x /\ s.cursor_y = prev_cursor_y THEN s
         ELSE IF c.deadzone > 0
         THEN [s EXCEPT
                 !.target_x = PullToDeadzone(s.cursor_x, s.center_x,
                                             DeadzoneHalf(c.width, c.deadzone)),
                 !.target_y = PullToDeadzone(s.cursor_y, s.center_y,
                                             DeadzoneHalf(c.height, c.deadzone)),
                 !.is_lerping = TRUE]
         ELSE [s EXCEPT !.target_x = s.cursor_x, !.target_y = s.cursor_y,
                        !.is_lerping = TRUE]
    ELSE [s EXCEPT !.center_x = InitialCenter(c.x, c.width),
                   !.center_y = InitialCenter(c.y, c.height),
                   !.target_x = InitialCenter(c.x, c.width),
                   !.target_y = InitialCenter(c.y, c.height),
                   !.is_lerping = FALSE]

\* vp-sndr lines 828-868; s holds the clamped cursor, prev the cursor before the frame
SndrRetarget(c, s, prev_cursor_x, prev_cursor_y) ==
    IF c.follow_mouse
    THEN LET cursor_changed ==
                 \/ Abs(s.cursor_x - prev_cursor_x) > DEFAULT_CURSOR_CHANGE_EPSILON_PX
                 \/ Abs(s.cursor_y - prev_cursor_y) > DEFAULT_CURSOR_CHANGE_EPSILON_PX
         IN  IF ~cursor_changed THEN s
             ELSE IF c.deadzone > 0
             THEN [s EXCEPT
                     !.target_x = PullToDeadzone(s.cursor_x, s.center_x,
                                                 DeadzoneHalf(c.width, c.deadzone)),
                     !.target_y = PullToDeadzone(s.cursor_y, s.center_y,
                                                 DeadzoneHalf(c.height, c.deadzone)),
                     !.is_lerping = TRUE]
             ELSE [s EXCEPT !.target_x = s.cursor_x, !.target_y = s.cursor_y,
                            !.is_lerping = TRUE]
    ELSE [s EXCEPT !.center_x = InitialCenter(c.x, c.width),
                   !.center_y = InitialCenter(c.y, c.height),
                   !.target_x = InitialCenter(c.x, c.width),
                   !.target_y = InitialCenter(c.y, c.height),
                   !.is_lerping = FALSE]

\* a settle test that only accepts a center already on the target
SettledOnlyWhenExact(dx, dy) == dx = 0 /\ dy = 0

\* dx * dx + dy * dy <= settle2; the two bounds on |dx| and |dy| follow from it and
\* keep the squares within 32 bits
Settled(dx, dy) ==
    /\ Abs(dx) <= DEFAULT_SETTLE_EPSILON_PX
    /\ Abs(dy) <= DEFAULT_SETTLE_EPSILON_PX
    /\ (dx * dx) + (dy * dy) <= DEFAULT_SETTLE_EPSILON_PX * DEFAULT_SETTLE_EPSILON_PX

\* an advance step that leaves FOLLOWING near the target without the final snap
SndrAdvanceStopsWithoutSnap(c, s, dt) ==
    IF ~s.is_lerping THEN s
    ELSE LET alpha == AlphaOf(c.smoothing, EffectiveDt(dt))
             cx == Lerp(s.center_x, s.target_x, alpha)
             cy == Lerp(s.center_y, s.target_y, alpha)
         IN  [s EXCEPT !.center_x = cx, !.center_y = cy,
                       !.is_lerping = ~Settled(s.target_x - cx, s.target_y - cy)]

\* vp-sndr lines 870-884
SndrAdvance(c, s, dt) ==
    IF ~s.is_lerping THEN s
    ELSE LET alpha == AlphaOf(c.smoothing, EffectiveDt(dt))
             cx == Lerp(s.center_x, s.target_x, alpha)
             cy == Lerp(s.center_y, s.target_y, alpha)
         IN  IF Settled(s.target_x - cx, s.target_y - cy)
             THEN [s EXCEPT !.center_x = s.target_x, !.center_y = s.target_y,
                            !.is_lerping = FALSE]
             ELSE [s EXCEPT !.center_x = cx, !.center_y = cy]

CropOriginUnclamped(center, out_dim, src_dim) ==
    RoundPx(Max(center - (Px(out_dim) \div 2), 0))

\* (center - out/2).clamp(0.0, (src - out) as f64).round() as usize
CropOrigin(center, out_dim, src_dim) ==
    RoundPx(Clamp(center - (Px(out_dim) \div 2), 0, Px(src_dim - out_dim)))

\* a policy that latches: once active, follow stays active
TestFollowLatched(c, s, prev_cursor_x, prev_cursor_y, f, dt) ==
    LET left == Clamp(s.center_x - (Px(c.width) \div 2), 0, Px(f.w - c.width))
        top == Clamp(s.center_y - (Px(c.height) \div 2), 0, Px(f.h - c.height))
        in_bounds == /\ s.cursor_x >= left /\ s.cursor_x < left + Px(c.width)
                     /\ s.cursor_y >= top /\ s.cursor_y < top + Px(c.height)
        s1 == [s EXCEPT !.follow_active = s.follow_active \/ ~in_bounds]
        s2 == IF ~s1.follow_active
              THEN [s1 EXCEPT !.target_x = s1.center_x, !.target_y = s1.center_y]
              ELSE [s1 EXCEPT !.target_x = s1.cursor_x, !.target_y = s1.cursor_y]
        alpha == AlphaOf(c.smoothing, EffectiveDt(dt))
    IN  [s2 EXCEPT !.center_x = Lerp(s2.center_x, s2.target_x, alpha),
                   !.center_y = Lerp(s2.center_y, s2.target_y, alpha)]

\* vp-test lines 934-990: boundary hysteresis on the current crop rectangle
TestFollow(c, s, prev_cursor_x, prev_cursor_y, f, dt) ==
    LET \* |cursor - prev| > 0.001 px: any difference at Sub units per pixel
        cursor_moved == s.cursor_x # prev_cursor_x \/ s.cursor_y # prev_cursor_y
        left == Clamp(s.center_x - (Px(c.width) \div 2), 0, Px(f.w - c.width))
        top == Clamp(s.center_y - (Px(c.height) \div 2), 0, Px(f.h - c.height))
        right == left + Px(c.width)
        bottom == top + Px(c.height)
        in_bounds == /\ s.cursor_x >= left /\ s.cursor_x < right
                     /\ s.cursor_y >= top /\ s.cursor_y < bottom
        prev_follow == s.follow_active
        s1 == [s EXCEPT !.follow_active = ~in_bounds]
        s2 == IF ~s1.follow_active
              THEN [s1 EXCEPT !.target_x = s1.center_x, !.target_y = s1.center_y]
              ELSE IF cursor_moved \/ ~prev_follow
              THEN [s1 EXCEPT !.target_x = s1.cursor_x, !.target_y = s1.cursor_y]
              ELSE s1
        alpha == AlphaOf(c.smoothing, EffectiveDt(dt))
    IN  [s2 EXCEPT !.center_x = Lerp(s2.center_x, s2.target_x, alpha),
                   !.center_y = Lerp(s2.center_y, s2.target_y, alpha)]


\* ------------------------------------------------------------ frame cropper
BYTES_PER_PIXEL == 4

\* vp-sndr: plane offset and stride from the VideoMeta, else (0, src_w * 4)
SndrPlane(f) ==
    IF IsSome(f.vmeta)
    THEN [offset |-> Unwrap(f.vmeta).offset,
          stride |-> IF Unwrap(f.vmeta).stride > 0 THEN Unwrap(f.vmeta).stride
                     ELSE f.w * BYTES_PER_PIXEL]
    ELSE [offset |-> 0, stride |-> f.w * BYTES_PER_PIXEL]

\* vp-test: no VideoMeta lookup, src_stride = src_w * 4
TestPlane(f) == [offset |-> 0, stride |-> f.w * BYTES_PER_PIXEL]

\* a row loop that starts every row at the beginning of the buffer's plane 0
CropRowNoOffset(plane, crop_x, crop_y, out_w, row) ==
    LET src_off == ((crop_y + row) * plane.stride) + (crop_x * BYTES_PER_PIXEL)
    IN  [dst_off |-> row * out_w * BYTES_PER_PIXEL,
         src_off |-> src_off,
         src_end |-> src_off + (out_w * BYTES_PER_PIXEL)]

\* one iteration of the row loop: the byte range copied and where it lands
CropRow(plane, crop_x, crop_y, out_w, row) ==
    LET src_off == plane.offset + ((crop_y + row) * plane.stride) + (crop_x * BYTES_PER_PIXEL)
    IN  [dst_off |-> row * out_w * BYTES_PER_PIXEL,
         src_off |-> src_off,
         src_end |-> src_off + (out_w * BYTES_PER_PIXEL)]

\* the row loop over vec![0u8; out_w * out_h * 4]
CropRows(plane, crop_x, crop_y, out_w, out_h) ==
    [len |-> out_w * out_h * BYTES_PER_PIXEL,
     rows |-> [r \in 1..out_h |-> CropRow(plane, crop_x, crop_y, out_w, r - 1)]]

\* no row has src_end > src.len()
RowsInBounds(buf, src_len) == \A r \in 1..Len(buf.rows) : buf.rows[r].src_end <= src_len

\* ------------------------------------------------------------------- pacer
\* a pacer that keeps the last frame of every group of keep_ratio
ShouldEmitLastOfGroup(idx, frame_skip) == (idx + 1) % (frame_skip + 1) = 0

\* a pacer that ignores frame_skip
ShouldEmitEveryFrame(idx, frame_skip) == idx >= 0

\* idx % u64::from(frame_skip.saturating_add(1)) == 0
ShouldEmit(idx, frame_skip) == idx % (frame_skip + 1) = 0

\* a stamp that advances two periods per emitted frame
StampEveryOther(idx, output_fps) ==
    [idx |-> idx, pts |-> FramePts(2 * idx, output_fps), dur |-> FrameDuration(output_fps)]

Stamp(idx, output_fps) ==
    [idx |-> idx, pts |-> FramePts(idx, output_fps), dur |-> FrameDuration(output_fps)]

\* -------------------------------------------------------- frame callbacks
Outcome(res, s, acc, icnt, oidx, how, cx, cy, buf, stamp) ==
    [result |-> res, st |-> s, deltas |-> acc, input_frame_count |-> icnt,
     out_idx |-> oidx, used |-> how, crop_x |-> cx, crop_y |-> cy,
     buf |-> buf, stamp |-> stamp]

\* vp-sndr run_send_live new_sample
SndrNewSample(c, s, cell, acc, icnt, oidx, f, dt, push_ok) ==
    IF f.w < c.width \/ f.h < c.height
    THEN Outcome("size_error", s, acc, icnt, oidx, "none", 0, 0, None, None)
    ELSE LET a == SndrAggregate(c, s, f, cell, acc)
             s1 == ClampCursor(a.st, f.w, f.h)
             s2 == SndrRetarget(c, s1, s.cursor_x, s.cursor_y)
             s3 == SndrAdvance(c, s2, dt)
             crop_x == CropOrigin(s3.center_x, c.width, f.w)
             crop_y == CropOrigin(s3.center_y, c.height, f.h)
             buf == CropRows(SndrPlane(f), crop_x, crop_y, c.width, c.height)
         IN  IF ~RowsInBounds(buf, f.len)
             THEN Outcome("bounds_error", s3, a.deltas, icnt, oidx, a.used,
                          crop_x, crop_y, None, None)
             ELSE Outcome(IF push_ok THEN "pushed" ELSE "push_error", s3, a.deltas, icnt,
                          oidx + 1, a.used, crop_x, crop_y, Some(buf),
                          Some(Stamp(oidx, OutputFps(c))))

\* a callback that counts the frame in before it looks at its size
TestNewSampleCountsFirst(c, s, cell, acc, icnt, oidx, f, dt, push_ok) ==
    IF f.w < c.width \/ f.h < c.height
    THEN Outcome("size_error", s, acc, icnt + 1, oidx, "none", 0, 0, None, None)
    ELSE LET a == TestAggregate(c, s, f, cell, acc)
             s1 == ClampCursor(a.st, f.w, f.h)
             s2 == TestFollow(c, s1, s.cursor_x, s.cursor_y, f, dt)
             crop_x == CropOrigin(s2.center_x, c.width, f.w)
             crop_y == CropOrigin(s2.center_y, c.height, f.h)
             buf == CropRows(TestPlane(f), crop_x, crop_y, c.width, c.height)
         IN  IF ~ShouldEmit(icnt, c.frame_skip)
             THEN Outcome("skipped", s2, a.deltas, icnt + 1, oidx, a.used,
                          crop_x, crop_y, None, None)
             ELSE IF ~RowsInBounds(buf, f.len)
             THEN Outcome("panic", s2, a.deltas, icnt + 1, oidx, a.used,
                          crop_x, crop_y, None, None)
             ELSE Outcome(IF push_ok THEN "pushed" ELSE "push_error", s2, a.deltas,
                          icnt + 1, oidx + 1, a.used, crop_x, crop_y, Some(buf),
                          Some(Stamp(oidx, OutputFps(c))))

\* vp-test run_record_follow_live new_sample
TestNewSample(c, s, cell, acc, icnt, oidx, f, dt, push_ok) ==
    IF f.w < c.width \/ f.h < c.height
    THEN Outcome("size_error", s, acc, icnt, oidx, "none", 0, 0, None, None)
    ELSE LET a == TestAggregate(c, s, f, cell, acc)
             s1 == ClampCursor(a.st, f.w, f.h)
             s2 == TestFollow(c, s1, s.cursor_x, s.cursor_y, f, dt)
             crop_x == CropOrigin(s2.center_x, c.width, f.w)
             crop_y == CropOrigin(s2.center_y, c.height, f.h)
             buf == CropRows(TestPlane(f), crop_x, crop_y, c.width, c.height)
         IN  IF ~ShouldEmit(icnt, c.frame_skip)
             THEN Outcome("skipped", s2, a.deltas, icnt + 1, oidx, a.used,
                          crop_x, crop_y, None, None)
             ELSE IF ~RowsInBounds(buf, f.len)
             THEN \* &src[src_off..src_off + n] panics: slice index out of range
                  Outcome("panic", s2, a.deltas, icnt + 1, oidx, a.used,
                          crop_x, crop_y, None, None)
             ELSE Outcome(IF push_ok THEN "pushed" ELSE "push_error", s2, a.deltas,
                          icnt + 1, oidx + 1, a.used, crop_x, crop_y, Some(buf),
                          Some(Stamp(oidx, OutputFps(c))))


\* ------------------------------------------------- sessions and environment
Config(bin, env, x, y, width, height, fps, frame_skip, follow_mouse, smoothing, deadzone, cosmic_cursor, mouse_deltas) ==
    [bin |-> bin, env |-> env, x |-> x, y |-> y, width |-> width, height |-> height,
     fps |-> fps, frame_skip |-> frame_skip, follow_mouse |-> follow_mouse,
     smoothing |-> smoothing, deadzone |-> deadzone,
     cosmic_cursor |-> cosmic_cursor, mouse_deltas |-> mouse_deltas]

\* Sessions on an 8x6 source, grouped by what the capture side delivers (env):
\*   "sources"  every cursor source switched on and off, one frame interval
\*   "lerp"     cursor from frame metadata only, three frame intervals
\*   "creep"    cursor metadata moving a quarter pixel per frame
\*   "pacer"    no cursor source, frames of the configured and of a too small size,
\*              downstream pushes that may fail
\*   "crop"     frames with and without VideoMeta, short buffers, compositor cursor
\*   "scene"    the 1920x1080 / 1280x720 / 20 % deadzone session
\*   "meta"     one cursor metadata per frame: normalized, absolute, on the
\*              frame edge, implausible; the compositor cell as next source
\*   "steady"   cursor from frame metadata only, frames 0.1 s apart
\*   "idle"     cursor from the compositor and the delta tracker only, frames
\*              0.1 s apart
\*   "locks"    the sessions of the lock-level view (LockSessions): frames with
\*              and without cursor metadata, two compositor positions
Sessions ==
    { Config("sndr", "sources", 2, 2, 4, 2, 30, 0, TRUE, 8, 50, TRUE, TRUE),
      Config("test", "sources", 2, 2, 4, 2, 30, 0, TRUE, 8, 0, TRUE, TRUE),
      Config("sndr", "sources", 2, 2, 4, 2, 30, 0, TRUE, 8, 50, FALSE, TRUE),
      Config("test", "sources", 2, 2, 4, 2, 30, 0, TRUE, 8, 0, FALSE, TRUE),
      Config("sndr", "sources", 2, 2, 4, 2, 30, 0, TRUE, 8, 50, TRUE, FALSE),
      Config("test", "sources", 2, 2, 4, 2, 30, 0, TRUE, 8, 0, TRUE, FALSE),
      Config("sndr", "lerp", 2, 2, 4, 2, 30, 0, TRUE, 8, 50, FALSE, FALSE),
      Config("sndr", "lerp", 0, 0, 4, 2, 30, 0, TRUE, 8, 0, FALSE, FALSE),
      Config("test", "lerp", 2, 2, 4, 2, 30, 0, TRUE, 8, 0, FALSE, FALSE),
      Config("sndr", "lerp", 6, 5, 4, 2, 30, 0, FALSE, 8, 50, FALSE, FALSE),
      Config("sndr", "lerp", 6, 5, 4, 2, 30, 0, TRUE, 8, 50, FALSE, FALSE),
      Config("test", "lerp", 6, 5, 4, 2, 30, 0, TRUE, 8, 0, FALSE, FALSE),
      Config("sndr", "creep", 2, 2, 4, 2, 30, 0, TRUE, 8, 50, FALSE, FALSE),
      Config("sndr", "pacer", 2, 2, 4, 2, 7, 0, TRUE, 8, 50, FALSE, FALSE),
      Config("sndr", "pacer", 2, 2, 4, 2, 50, 0, TRUE, 8, 50, FALSE, FALSE),
      Config("test", "pacer", 2, 2, 4, 2, 7, 0, TRUE, 8, 0, FALSE, FALSE),
      Config("test", "pacer", 2, 2, 4, 2, 14, 1, TRUE, 8, 0, FALSE, FALSE),
      Config("test", "pacer", 2, 2, 4, 2, 2, 2, TRUE, 8, 0, FALSE, FALSE),
      Config("sndr", "crop", 2, 2, 4, 2, 30, 0, TRUE, 8, 0, TRUE, FALSE),
      Config("test", "crop", 2, 2, 4, 2, 30, 1, TRUE, 8, 0, TRUE, FALSE),
      Config("sndr", "crop", 0, 0, 8, 6, 30, 0, TRUE, 8, 50, TRUE, FALSE),
      Config("test", "crop", 0, 0, 8, 6, 30, 0, TRUE, 8, 0, TRUE, FALSE),
      Config("sndr", "scene", 320, 180, 1280, 720, 30, 0, TRUE, 8, 20, FALSE, FALSE),
      Config("sndr", "meta", 2, 2, 4, 2, 30, 0, TRUE, 8, 0, TRUE, FALSE),
      Config("sndr", "steady", 2, 2, 4, 2, 30, 0, TRUE, 8, 0, FALSE, FALSE),
      Config("sndr", "idle", 2, 2, 4, 2, 30, 0, TRUE, 8, 50, TRUE, TRUE),
      Config("test", "meta", 2, 2, 4, 2, 30, 0, TRUE, 8, 0, TRUE, FALSE) }

CursorMeta(looks_cursor, xy) == [looks_cursor |-> looks_cursor, xy |-> xy]
At(x, y) == [x |-> x, y |-> y]

Frame(w, h, vmeta, len, metas) ==
    [w |-> w, h |-> h, vmeta |-> vmeta, len |-> len, metas |-> metas]

\* a frame whose buffer is exactly w * h * 4 bytes, without VideoMeta
PlainFrame(w, h, metas) == Frame(w, h, None, w * h * BYTES_PER_PIXEL, metas)

CursorAt(x, y) == <<CursorMeta(TRUE, Some(At(x, y)))>>

SourcesMetas ==
    { <<>>,
      <<CursorMeta(FALSE, Some(At(0, 0))), CursorMeta(TRUE, Some(At(-100, 50))),
        CursorMeta(TRUE, Some(At(120, 480)))>>,
      <<CursorMeta(TRUE, None), CursorMeta(TRUE, Some(At(900, 100)))>> }

LerpMetas == { <<>>, CursorAt(650, 150), CursorAt(120, 480), CursorAt(430, 310) }

SavedMetas == { <<>>, CursorAt(650, 150), CursorAt(120, 480) }

CreepMetas ==
    { <<>>, CursorAt(554, 404), CursorAt(529, 379), CursorAt(504, 354), CursorAt(479, 329) }

SceneMetas == { <<>>, CursorAt(Px(1850), Px(100)), CursorAt(Px(1000), Px(500)) }

MetaMetas ==
    { <<>>, CursorAt(50, 50), CursorAt(100, 100), CursorAt(650, 150), CursorAt(800, 600),
      CursorAt(900, 100), CursorAt(-100, 50) }

CropFrames ==
    { PlainFrame(8, 6, <<>>),
      Frame(8, 6, Some([offset |-> 4, stride |-> 36]), 220, <<>>),
      Frame(8, 6, Some([offset |-> 0, stride |-> 0]), 192, <<>>),
      Frame(8, 6, None, 100, <<>>),
      Frame(3, 1, None, 12, <<>>) }

FramesOf(c) ==
    CASE c.env = "sources" -> { PlainFrame(8, 6, m) : m \in SourcesMetas }
      [] c.env = "lerp" -> { PlainFrame(8, 6, m) : m \in LerpMetas }
      [] c.env = "creep" -> { PlainFrame(8, 6, m) : m \in CreepMetas }
      [] c.env = "pacer" -> { PlainFrame(8, 6, <<>>), PlainFrame(3, 1, <<>>) }
      [] c.env = "crop" -> CropFrames
      [] c.env = "scene" -> { PlainFrame(1920, 1080, m) : m \in SceneMetas }
      [] c.env = "meta" -> { PlainFrame(8, 6, m) : m \in MetaMetas }
      [] c.env = "steady" -> { PlainFrame(8, 6, m) : m \in LerpMetas }
      [] c.env = "idle" -> { PlainFrame(8, 6, <<>>) }
      [] c.env = "saved" -> { PlainFrame(8, 6, m) : m \in SavedMetas }
      [] c.env = "locks" -> { PlainFrame(8, 6, <<>>), PlainFrame(8, 6, CursorAt(650, 150)) }

DtsOf(c) ==
    CASE c.env \in {"sources", "meta"} -> {10000000}
      [] c.env = "lerp" -> {0, 100000, 10000000}
      [] c.env = "creep" -> {0, 100000}
      [] c.env = "saved" -> {0, 100000}
      [] c.env = "crop" -> {10000000}
      [] c.env = "scene" -> {100000, 10000000}
      [] OTHER -> {100000}

CosmicEventsOf(c) == IF c.env \in {"crop", "locks"} THEN {At(0, 0), At(7, 5)} ELSE {At(-3, 2)}
RelEventsOf(c) == {[axis |-> "REL_X", v |-> 3], [axis |-> "REL_Y", v |-> -2]}
PushOutcomesOf(c) == IF c.env = "pacer" THEN BOOLEAN ELSE {TRUE}

\* the three execution contexts of a session and the mutexes they share
Threads == {"callback", "compositor", "poller"}
Locks == {"follow_state", "cosmic_xy", "deltas", "input_frame_count", "out_idx"}

\* a statement: what it does and, for lock / unlock, on which mutex
L(op, on) == [op |-> op, on |-> on]

\* the streaming thread waits for a sample, the compositor worker sits in
\* blocking_dispatch, the poller is about to fetch events
StartPc ==
    [t \in Threads |->
        CASE t = "callback" -> L("wait_sample", "")
          [] t = "compositor" -> L("blocking_dispatch", "")
          [] t = "poller" -> L("fetch_events", "")]

StartLoc ==
    [used_meta |-> FALSE, used_cosmic |-> FALSE, read |-> None, should_emit |-> TRUE,
     logged_meta_probe |-> FALSE, event |-> None, rel |-> None, completed |-> None]

NoFrame ==
    [result |-> "none", frame |-> None, dt |-> 0, pre |-> None, cell |-> None,
     acc |-> None, icnt |-> 0, oidx |-> 0, used |-> "none", crop_x |-> 0, crop_y |-> 0,
     stamp |-> None, post |-> [dx |-> 0, dy |-> 0], carried |-> [dx |-> 0, dy |-> 0]]

\* ------------------------------------------------------- vp-sndr start-up
\* f64 values of the command line and of the configuration file: a finite
\* number or NaN ("nan" is accepted by str::parse::<f64> and by TOML)
F64(v) == [nan |-> FALSE, v |-> v]
NaN == [nan |-> TRUE, v |-> 0]
\* IEEE comparisons: every comparison with NaN is false
F64Le(a, b) == ~a.nan /\ ~b.nan /\ a.v <= b.v
F64Lt(a, b) == ~a.nan /\ ~b.nan /\ a.v < b.v
\* (lo..=hi).contains(&v)
RangeInclusiveContains(lo, hi, v) == F64Le(lo, v) /\ F64Le(v, hi)

\* the file read_to_string cannot read, and a file toml::from_str rejects
NoFile == [file |-> "missing"]
Unparsable == [file |-> "unparsable"]

SenderConfig(width, height, fps, smoothing, deadzone, bitrate_kbps) ==
    [width |-> width, height |-> height, fps |-> fps, smoothing |-> smoothing,
     deadzone |-> deadzone, bitrate_kbps |-> bitrate_kbps]

DEFAULT_WIDTH == 1280
DEFAULT_HEIGHT == 720
DEFAULT_FPS == 60
DEFAULT_MOUSE_SMOOTHING == 8
DEFAULT_BITRATE_KBPS == 8000
SenderConfig_default ==
    SenderConfig(DEFAULT_WIDTH, DEFAULT_HEIGHT, DEFAULT_FPS, F64(DEFAULT_MOUSE_SMOOTHING),
                 F64(0), DEFAULT_BITRATE_KBPS)

\* what u32 and f64 fields can hold, on the command line and in the file alike:
\* one field at a time away from the defaults
RawConfigs ==
    {SenderConfig_default}
    \cup {[SenderConfig_default EXCEPT !.width = w] : w \in {0, 8, 1920}}
    \cup {[SenderConfig_default EXCEPT !.height = h] : h \in {0, 6, 1080}}
    \cup {[SenderConfig_default EXCEPT !.fps = f] : f \in {0, 30, 120}}
    \cup {[SenderConfig_default EXCEPT !.smoothing = k] : k \in {F64(-1), F64(0), F64(1), NaN}}
    \cup {[SenderConfig_default EXCEPT !.deadzone = d] : d \in {F64(-5), F64(50), F64(100), F64(150), NaN}}
    \cup {[SenderConfig_default EXCEPT !.bitrate_kbps = b] : b \in {0, 500, 20000}}

\* the checks parse_cli makes on the arguments of `send` before it returns
\* Ok(Cli::Send {..}); the error it returns otherwise
parse_cli(c) ==
    IF c.width = 0 \/ c.height = 0 THEN "--width and --height must be > 0"
    ELSE IF c.fps = 0 THEN "--fps must be > 0"
    ELSE IF F64Le(c.smoothing, F64(0)) THEN "--smoothing must be > 0"
    ELSE IF ~RangeInclusiveContains(F64(0), F64(100), c.deadzone) THEN "--deadzone must be between 0 and 100"
    ELSE IF c.bitrate_kbps = 0 THEN "--bitrate-kbps must be > 0"
    ELSE "Ok"

\* load_config: the defaults when the file is missing or does not parse, else
\* the values written in it, as they are
load_config(file) ==
    IF file \in {NoFile, Unparsable} THEN SenderConfig_default ELSE file

InitWith(configs) ==
    /\ cfg \in configs
    /\ st = InitFollowState(cfg)
    /\ cosmic_xy = None
    /\ deltas = [dx |-> 0, dy |-> 0]
    /\ input_frame_count = 0
    /\ out_idx = 0
    /\ session = "running"
    /\ frames = 0
    /\ last = NoFrame
    /\ out_log = <<>>
    /\ out_data = None
    /\ unapplied = [dx |-> 0, dy |-> 0]
    /\ pipelines = [input |-> "Playing", output |-> "Playing"]
    /\ exit_code = None
    /\ pc = StartPc
    /\ held = [t \in Threads |-> {}]
    /\ loc = StartLoc
    /\ saved = NoFile
    /\ send_cfg = None

Init == InitWith(Sessions)

\* ------------------------------------------------------------- main loop
ExitCode_SUCCESS == 0
ExitCode_FAILURE == 1
ExitCode_USAGE == 2

\* vp-sndr: Error and Eos both set done, done returns SUCCESS, the deadline 1;
\* vp-test: only Eos sets finished, everything else returns 1
ExitCodeOf(bin, msg) ==
    IF bin = "sndr"
    THEN IF msg \in {"Error", "Eos"} THEN ExitCode_SUCCESS ELSE ExitCode_FAILURE
    ELSE IF msg = "Eos" THEN ExitCode_SUCCESS ELSE ExitCode_FAILURE

\* what the main loop can see: the error a failed callback put on the bus, or,
\* while frames still flow, the end of the capture or the deadline
BusMessagesOf(c, sess) ==
    IF sess = "failed" THEN {"Error"}
    ELSE IF sess = "running" /\ c.env = "pacer" THEN {"Eos", "Deadline"}
    ELSE {}

\* what the aggregator added to the cursor out of the accumulator on frame f
Applied(f) ==
    LET a == IF cfg.bin = "sndr" THEN SndrAggregate(cfg, st, f, cosmic_xy, deltas)
             ELSE TestAggregate(cfg, st, f, cosmic_xy, deltas)
    IN  [dx |-> a.st.cursor_x - st.cursor_x, dy |-> a.st.cursor_y - st.cursor_y]

\* ------------------------------------------------------------------ actions
\* the capture pipeline delivers a frame to the appsink callback
NewSample ==
    /\ session = "running"
    /\ frames < MaxFrames
    /\ \E f \in FramesOf(cfg), dt \in DtsOf(cfg), push_ok \in PushOutcomesOf(cfg) :
         \E r \in {IF cfg.bin = "sndr"
                  THEN SndrNewSample(cfg, st, cosmic_xy, deltas, input_frame_count,
                                     out_idx, f, dt, push_ok)
                  ELSE TestNewSample(cfg, st, cosmic_xy, deltas, input_frame_count,
                                     out_idx, f, dt, push_ok)} :
             /\ st' = r.st
             /\ deltas' = r.deltas
             /\ input_frame_count' = r.input_frame_count
             /\ out_idx' = r.out_idx
             /\ session' = IF r.result \in {"pushed", "skipped"} THEN "running" ELSE "failed"
             /\ out_log' = IF r.result = "pushed" THEN Append(out_log, Unwrap(r.stamp))
                           ELSE out_log
             /\ out_data' = IF IsSome(r.buf) THEN r.buf ELSE out_data
             /\ unapplied' = IF r.used = "delta"
                             THEN [dx |-> unapplied.dx - Applied(f).dx,
                                   dy |-> unapplied.dy - Applied(f).dy]
                             ELSE unapplied
             /\ last' = [result |-> r.result, frame |-> Some(f), dt |-> dt,
                         pre |-> Some(st), cell |-> cosmic_xy, acc |-> Some(deltas),
                         icnt |-> input_frame_count, oidx |-> out_idx, used |-> r.used,
                         crop_x |-> r.crop_x, crop_y |-> r.crop_y, stamp |-> r.stamp,
                         post |-> r.deltas, carried |-> last.post]
    /\ frames' = frames + 1
    /\ UNCHANGED <<cfg, cosmic_xy, pipelines, exit_code, pc, held, loc, saved, send_cfg>>

\* a handler that also moves the cursor of FollowState itself
cursor_positionMovesCursor ==
    /\ session = "running"
    /\ cfg.cosmic_cursor
    /\ \E e \in CosmicEventsOf(cfg) :
         /\ cosmic_xy' = Some(At(Px(e.x), Px(e.y)))
         /\ st' = [st EXCEPT !.cursor_x = Px(e.x), !.cursor_y = Px(e.y)]
    /\ UNCHANGED <<cfg, deltas, input_frame_count, out_idx, session, frames, last,
                   out_log, out_data, unapplied, pipelines, exit_code, pc, held, loc, saved, send_cfg>>

\* CosmicCursorApp::cursor_position on the compositor worker thread
cursor_position ==
    /\ session = "running"
    /\ cfg.cosmic_cursor
    /\ \E e \in CosmicEventsOf(cfg) :
         cosmic_xy' = Some(At(Px(e.x), Px(e.y)))
    /\ UNCHANGED <<cfg, st, deltas, input_frame_count, out_idx, session, frames, last,
                   out_log, out_data, unapplied, pipelines, exit_code, pc, held, loc, saved, send_cfg>>

\* start_mouse_delta_tracker: the poller thread adds one relative-motion event
PollerEvent ==
    /\ session = "running"
    /\ cfg.mouse_deltas
    /\ \E e \in RelEventsOf(cfg) :
         LET d == IF e.axis = "REL_X" THEN [deltas EXCEPT !.dx = @ + Px(e.v)]
                  ELSE [deltas EXCEPT !.dy = @ + Px(e.v)]
         IN  /\ Abs(d.dx) <= Px(MaxAcc)
             /\ Abs(d.dy) <= Px(MaxAcc)
             /\ deltas' = d
         /\ unapplied' = IF e.axis = "REL_X" THEN [unapplied EXCEPT !.dx = @ + Px(e.v)]
                         ELSE [unapplied EXCEPT !.dy = @ + Px(e.v)]
    /\ UNCHANGED <<cfg, st, cosmic_xy, input_frame_count, out_idx, session, frames, last,
                   out_log, out_data, pipelines, exit_code, pc, held, loc, saved, send_cfg>>

\* the bus loop of run_send_live / run_record_follow_live takes a message (or
\* reaches its deadline), leaves the loop, sets both pipelines to Null and returns
BusLoopExit ==
    /\ exit_code = None
    /\ \E msg \in BusMessagesOf(cfg, session) :
         /\ exit_code' = Some(ExitCodeOf(cfg.bin, msg))
         /\ session' = IF session = "running" THEN "ended" ELSE session
    /\ pipelines' = [input |-> "Null", output |-> "Null"]
    /\ UNCHANGED <<cfg, st, cosmic_xy, deltas, input_frame_count, out_idx, frames, last,
                   out_log, out_data, unapplied, pc, held, loc, saved, send_cfg>>

Next == NewSample \/ cursor_position \/ PollerEvent \/ BusLoopExit

Spec == Init /\ [][Next]_vars

\* a step on which the appsink callback ran: NewSample is enabled exactly when
\* the session runs and the source has frames left, and it is the only action
\* that counts a frame
FrameDelivered == session = "running" /\ frames < MaxFrames /\ frames' = frames + 1

\* the vp-sndr sessions whose frames arrive at a steady 0.1 s or more
SteadySessions == {c \in Sessions : c.bin = "sndr" /\ c.env \in {"steady", "idle", "scene", "pacer"}}

\* the capture pipeline streams: while the session runs and the source has
\* frames left, the appsink callback is called again
FairSpec == InitWith(SteadySessions) /\ [][Next]_vars /\ WF_frames(FrameDelivered)


\* sessions on parameters only the configuration file can give (`run-saved`
\* passes load_config's result to run_send as it is), next to checked ones
SavedSessions ==
    { Config("sndr", "saved", 2, 2, 4, 2, 30, 0, TRUE, k, 0, FALSE, FALSE) : k \in {-1, 0, 8} }
    \cup { Config("test", "locks", 2, 2, 4, 2, 30, 1, TRUE, 8, 0, TRUE, TRUE) }
    \cup { c \in Sessions : c.bin = "sndr" /\ c.env = "pacer" }

SavedSpec == InitWith(SavedSessions) /\ [][Next]_vars

\* --------------------------------------------------- vp-sndr command line
\* the file is the user's to edit: the tray's "open config" entry hands it to
\* the desktop's editor, `vp-sndr config` prints its path
UserEditsFile ==
    /\ send_cfg = None
    /\ saved' \in RawConfigs \cup {NoFile, Unparsable}
    /\ saved' # saved
    /\ UNCHANGED <<cfg, st, cosmic_xy, deltas, input_frame_count, out_idx, session,
                   frames, last, out_log, out_data, unapplied, pipelines, exit_code,
                   pc, held, loc, send_cfg>>

\* tray_open_config: writes back what load_config returns before the editor starts
tray_open_config ==
    /\ send_cfg = None
    /\ saved' = load_config(saved)
    /\ UNCHANGED <<cfg, st, cosmic_xy, deltas, input_frame_count, out_idx, session,
                   frames, last, out_log, out_data, unapplied, pipelines, exit_code,
                   pc, held, loc, send_cfg>>

\* main, `send ...`: parse_cli, then save_config(cfg_from_send) and run_send;
\* a rejected command line prints the error and exits with 2
MainSend ==
    /\ send_cfg = None
    /\ \E args \in RawConfigs :
          IF parse_cli(args) = "Ok"
          THEN /\ saved' = args
               /\ send_cfg' = Some(args)
               /\ exit_code' = None
          ELSE /\ exit_code' = Some(ExitCode_USAGE)
               /\ UNCHANGED <<saved, send_cfg>>
    /\ UNCHANGED <<cfg, st, cosmic_xy, deltas, input_frame_count, out_idx, session,
                   frames, last, out_log, out_data, unapplied, pipelines, pc, held, loc>>

\* main, `run-saved`: run_send on what load_config returns
MainRunSaved ==
    /\ send_cfg = None
    /\ send_cfg' = Some(load_config(saved))
    /\ exit_code' = None
    /\ UNCHANGED <<cfg, st, cosmic_xy, deltas, input_frame_count, out_idx, session,
                   frames, last, out_log, out_data, unapplied, pipelines, pc, held, loc,
                   saved>>

\* run_send returns: the portal handshake failed (1), or run_send_live is over
RunSendReturns ==
    /\ send_cfg # None
    /\ send_cfg' = None
    /\ exit_code' \in {Some(ExitCode_SUCCESS), Some(ExitCode_FAILURE)}
    /\ UNCHANGED <<cfg, st, cosmic_xy, deltas, input_frame_count, out_idx, session,
                   frames, last, out_log, out_data, unapplied, pipelines, pc, held, loc,
                   saved>>

StartNext == UserEditsFile \/ tray_open_config \/ MainSend \/ MainRunSaved \/ RunSendReturns

StartSessions == {Config("sndr", "sources", 2, 2, 4, 2, 30, 0, TRUE, 8, 0, TRUE, TRUE)}

StartSpec == InitWith(StartSessions) /\ [][StartNext]_vars


\* ================================================================== claims
Processed == last.result \notin {"none", "size_error"}
LastFrame == Unwrap(last.frame)
Pre == Unwrap(last.pre)
LastAcc == Unwrap(last.acc)

\* C1: on every frame that passes the size check the crop origin used for
\* cropping satisfies 0 <= x <= src_w - out_w and 0 <= y <= src_h - out_h,
\* whatever the crop center is.
CropOriginInRange ==
    Processed =>
        /\ 0 <= last.crop_x /\ last.crop_x <= LastFrame.w - cfg.width
        /\ 0 <= last.crop_y /\ last.crop_y <= LastFrame.h - cfg.height

\* a frame was cropped although the center asks for an origin right of / below the range
CropOriginWasClamped ==
    /\ last.result = "pushed"
    /\ st.center_x - (Px(cfg.width) \div 2) > Px(LastFrame.w - cfg.width)
    /\ st.center_y - (Px(cfg.height) \div 2) > Px(LastFrame.h - cfg.height)
    /\ last.crop_x = LastFrame.w - cfg.width

\* C2: with follow enabled the cursor sample comes from exactly one source in
\* the order metadata, compositor cell, raw-input deltas; the accumulator is
\* drained only when the deltas are the source; vp-sndr and vp-test choose the
\* same source on the same inputs.
ExpectedSource ==
    IF IsSome(extract_cursor_from_sample(LastFrame.metas, LastFrame.w, LastFrame.h))
    THEN "meta"
    ELSE IF cfg.cosmic_cursor /\ IsSome(last.cell) THEN "cosmic"
    ELSE IF cfg.mouse_deltas THEN "delta"
    ELSE "none"

ExpectedSample ==
    CASE ExpectedSource = "meta" ->
            Unwrap(extract_cursor_from_sample(LastFrame.metas, LastFrame.w, LastFrame.h))
      [] ExpectedSource = "cosmic" -> Unwrap(last.cell)
      [] ExpectedSource = "delta" ->
            At(Pre.cursor_x + LastAcc.dx, Pre.cursor_y + LastAcc.dy)
      [] OTHER -> At(Pre.cursor_x, Pre.cursor_y)

SourceRule ==
    (Processed /\ cfg.follow_mouse) =>
        /\ last.used = ExpectedSource
        /\ st.cursor_x = Clamp(ExpectedSample.x, 0, Px(LastFrame.w - 1))
        /\ st.cursor_y = Clamp(ExpectedSample.y, 0, Px(LastFrame.h - 1))
        /\ deltas = IF ExpectedSource = "delta" THEN [dx |-> 0, dy |-> 0] ELSE LastAcc
        /\ SndrAggregate(cfg, Pre, LastFrame, last.cell, LastAcc)
             = TestAggregate(cfg, Pre, LastFrame, last.cell, LastAcc)

SourcePriority == [][frames' # frames => SourceRule']_vars

\* metadata won although the compositor cell and the accumulator both held a value
MetaWonOverBoth ==
    /\ Processed /\ cfg.follow_mouse
    /\ last.used = "meta"
    /\ IsSome(last.cell)
    /\ LastAcc.dx # 0
    /\ deltas = LastAcc
    /\ cfg.bin = "test"


\* C3: in vp-sndr with follow enabled and deadzone_pct > 0, a frame whose clamped
\* cursor lies strictly inside the deadzone rectangle around the current crop
\* center leaves the crop center unchanged.  As claimed: in any controller
\* state.  As amended: unless the controller is FOLLOWING when the frame arrives
\* and the cursor moved by no more than the epsilon since the previous frame.
DeadzoneFrame ==
    /\ Processed
    /\ cfg.bin = "sndr" /\ cfg.follow_mouse /\ cfg.deadzone > 0
    /\ Abs(st.cursor_x - Pre.center_x) < DeadzoneHalf(cfg.width, cfg.deadzone)
    /\ Abs(st.cursor_y - Pre.center_y) < DeadzoneHalf(cfg.height, cfg.deadzone)

CursorChanged ==
    \/ Abs(st.cursor_x - Pre.cursor_x) > DEFAULT_CURSOR_CHANGE_EPSILON_PX
    \/ Abs(st.cursor_y - Pre.cursor_y) > DEFAULT_CURSOR_CHANGE_EPSILON_PX

CenterKept == st.center_x = Pre.center_x /\ st.center_y = Pre.center_y

DeadzoneHoldsCenterAlways == DeadzoneFrame => CenterKept

DeadzoneHoldsCenter ==
    (DeadzoneFrame /\ (~Pre.is_lerping \/ CursorChanged)) => CenterKept

\* the controller was FOLLOWING, with a target away from the center, when the
\* cursor jumped to a point strictly inside the deadzone
JumpIntoDeadzoneWhileFollowing ==
    /\ DeadzoneFrame /\ CursorChanged
    /\ Pre.is_lerping
    /\ Pre.target_x # Pre.center_x
    /\ last.dt > 0
    /\ CenterKept


\* ------------------------------------------------------- pacer and timestamps
KeepRatio == cfg.frame_skip + 1
EmitDecisions == (input_frame_count + (KeepRatio - 1)) \div KeepRatio
Period == FrameDuration(OutputFps(cfg))
OneNs == [s |-> 0, ns |-> 1]

RECURSIVE TsTimes(_, _)
TsTimes(n, t) == IF n = 0 THEN [s |-> 0, ns |-> 0] ELSE TsAdd(TsTimes(n - 1, t), t)

\* C4: across N source frames delivered to the vp-test pacer with keep_ratio
\* k = frame_skip + 1 the number of emitted frames.  As claimed: floor(N/k).
\* As amended: ceil(N/k), the frames with counter 0, k, 2k, ...; a frame the
\* pacer kept but whose crop or push failed ends the session unemitted.
EmittedIsFloor ==
    (cfg.bin = "test" /\ session = "running") =>
        Len(out_log) = input_frame_count \div KeepRatio

EmittedIsCeil ==
    cfg.bin = "test" =>
        /\ Len(out_log) = EmitDecisions
                - (IF last.result \in {"panic", "push_error"} THEN 1 ELSE 0)
        /\ session = "running" => out_idx = EmitDecisions

\* three frames went through a keep_ratio 2 pacer: two were emitted
PacerKeptFirstOfPartialGroup ==
    /\ cfg.bin = "test" /\ session = "running"
    /\ KeepRatio = 2 /\ input_frame_count = 3
    /\ Len(out_log) = 2

\* C7: the vp-test pacer's input-frame counter starts at 0 and grows by one
\* for every frame that reaches it, emitted or skipped; the frame with counter
\* value i is skipped iff i mod keep_ratio # 0; a skipped frame returns success
\* and leaves the emission index alone, an emitted frame takes the next one.
PacerCounter ==
    cfg.bin = "test" =>
        /\ frames = 0 => input_frame_count = 0 /\ out_idx = 0
        /\ session = "running" => input_frame_count = frames
        /\ Processed =>
              /\ input_frame_count = last.icnt + 1
              /\ last.result = "skipped" <=> last.icnt % KeepRatio # 0
              /\ last.result = "skipped" =>
                    session # "failed" /\ out_idx = last.oidx /\ last.stamp = None
              /\ last.result = "pushed" =>
                    out_idx = last.oidx + 1 /\ Unwrap(last.stamp).idx = last.oidx

\* the second skipped frame of a group of three, after one emitted frame
SkippedTwiceAfterEmit ==
    /\ cfg.bin = "test" /\ KeepRatio = 3
    /\ last.result = "skipped" /\ last.icnt = 2
    /\ out_idx = 1 /\ Len(out_log) = 1
    /\ session = "running"

\* C5: the n-th emitted frame (n from 0 over emitted frames only) carries
\* duration_ns = period_ns = floor(1e9 / output_fps).  As claimed: pts_ns =
\* n * period_ns for every output_fps.  As amended: pts_ns = floor(n * 1e9 /
\* output_fps) = n * period_ns + floor(n * (1e9 mod output_fps) / output_fps),
\* which is n * period_ns when output_fps divides 1e9.
Emitted == 1..Len(out_log)

StampsCountEmitted ==
    \A i \in Emitted : out_log[i].idx = i - 1 /\ out_log[i].dur = Period

PtsIsMultipleOfPeriod ==
    /\ StampsCountEmitted
    /\ \A i \in Emitted : out_log[i].pts = TsTimes(i - 1, Period)

PtsIsFloorOfExactQuotient ==
    /\ StampsCountEmitted
    /\ \A i \in Emitted :
          out_log[i].pts =
              TsAdd(TsTimes(i - 1, Period),
                    TsNorm(0, ((i - 1) * (NSEC_PER_SEC % OutputFps(cfg))) \div OutputFps(cfg)))
    /\ NSEC_PER_SEC % OutputFps(cfg) = 0 =>
          \A i \in Emitted : out_log[i].pts = TsTimes(i - 1, Period)

\* the third frame emitted at 7 frames per second: 285714285 ns, not 2 * 142857142
ThirdStampAtSevenFps ==
    /\ OutputFps(cfg) = 7
    /\ Len(out_log) >= 3
    /\ out_log[3].pts = [s |-> 0, ns |-> 285714285]
    /\ out_log[3].pts # TsTimes(2, Period)

\* C6: the presentation timestamps of consecutive emitted frames are strictly
\* increasing, whatever the arrival times and the number of decimated frames
\* in between.  As claimed: gap-free, pts[n+1] = pts[n] + duration[n], for
\* every output_fps.  As amended: pts[n+1] - (pts[n] + duration[n]) is 0 or
\* 1 ns, and 0 when output_fps divides 1e9.
Consecutive == 1..(Len(out_log) - 1)

PtsStrictlyIncreasing ==
    \A i \in Consecutive : TsLess(out_log[i].pts, out_log[i + 1].pts)

Cropped == last.result \in {"pushed", "push_error"}
HasVideoMeta == cfg.bin = "sndr" /\ IsSome(LastFrame.vmeta)
PlaneOffset == IF HasVideoMeta THEN Unwrap(LastFrame.vmeta).offset ELSE 0
PlaneStride ==
    IF HasVideoMeta /\ Unwrap(LastFrame.vmeta).stride > 0
    THEN Unwrap(LastFrame.vmeta).stride
    ELSE LastFrame.w * 4
OutRows == Unwrap(out_data).rows

Scene ==
    /\ Processed
    /\ cfg.bin = "sndr" /\ cfg.follow_mouse /\ cfg.deadzone = 20
    /\ cfg.width = 1280 /\ cfg.height = 720
    /\ LastFrame.w = 1920 /\ LastFrame.h = 1080

JumpToTopRight ==
    /\ Scene
    /\ Pre.center_x = Px(960) /\ Pre.center_y = Px(540)
    /\ st.cursor_x = Px(1850) /\ st.cursor_y = Px(100)
    /\ CursorChanged

SceneTargetAndOrigin ==
    /\ JumpToTopRight =>
          /\ DeadzoneHalf(cfg.width, cfg.deadzone) = Px(128)
          /\ DeadzoneHalf(cfg.height, cfg.deadzone) = Px(72)
          /\ st.target_x = Px(1722) /\ st.target_y = Px(172)
    /\ (Scene /\ st.center_x = Px(1722)) => last.crop_x = 640

\* the jump arrived on a frame 10 s after the previous one: the center is on
\* the target when the frame is cropped
SceneConverged ==
    /\ JumpToTopRight
    /\ st.center_x = st.target_x /\ st.center_x = Px(1722)
    /\ ~st.is_lerping
    /\ last.crop_x = 640

\* C10: a frame on which the controller lerps moves the center, per axis, by
\* (target - center) * (1 - exp(-smoothing * dt)) with dt the time since the
\* previous frame, at least 1 us; dt = 0 leaves the center where it is (to
\* 0.01 px), a dt of 10 s puts it on the target, and smoothing 8.0 with
\* dt = 0.1 s moves it by 0.5506710 of the remaining distance (alpha within
\* 1e-6).  vp-sndr lerps while FOLLOWING and replaces the result by the target
\* when it is within the settle distance; vp-test lerps on every frame.
LerpFrame ==
    /\ Processed
    /\ cfg.bin = "sndr" => (cfg.follow_mouse /\ (Pre.is_lerping \/ CursorChanged))

Snapped == cfg.bin = "sndr" /\ ~st.is_lerping
StepAlpha == AlphaOf(cfg.smoothing, IF last.dt < 1 THEN 1 ELSE last.dt)
Blend(d) == Sign(d) * MulRound(Abs(d), StepAlpha)
LerpedX == Pre.center_x + Blend(st.target_x - Pre.center_x)
LerpedY == Pre.center_y + Blend(st.target_y - Pre.center_y)
MovedX == st.center_x - Pre.center_x
MovedY == st.center_y - Pre.center_y

SmoothingLaw ==
    LerpFrame =>
        /\ IF Snapped
           THEN /\ st.center_x = st.target_x /\ st.center_y = st.target_y
                /\ Settled(st.target_x - LerpedX, st.target_y - LerpedY)
           ELSE st.center_x = LerpedX /\ st.center_y = LerpedY
        /\ last.dt = 0 =>
              /\ StepAlpha > 0 /\ StepAlpha <= cfg.smoothing * 100
              /\ ~Snapped => (Abs(MovedX) <= 1 /\ Abs(MovedY) <= 1)
        /\ last.dt = 10 * USEC_PER_SEC =>
              st.center_x = st.target_x /\ st.center_y = st.target_y
        /\ (cfg.smoothing = 8 /\ last.dt = USEC_PER_SEC \div 10) =>
              /\ Abs(StepAlpha - 55067104) <= 100
              /\ (~Snapped /\ Abs(st.target_x - Pre.center_x) <= Px(8)) =>
                    Abs((MovedX * 100000) - ((st.target_x - Pre.center_x) * 55067))
                        <= 50100
              /\ (~Snapped /\ Abs(st.target_y - Pre.center_y) <= Px(8)) =>
                    Abs((MovedY * 100000) - ((st.target_y - Pre.center_y) * 55067))
                        <= 50100

\* a 0.1 s step at smoothing 8.0 toward a target 1.5 px right and 1 px up:
\* the center moves 0.83 px and 0.55 px and the controller keeps FOLLOWING
OneTenthSecondStep ==
    /\ LerpFrame /\ cfg.bin = "sndr" /\ st.is_lerping
    /\ cfg.smoothing = 8 /\ last.dt = USEC_PER_SEC \div 10
    /\ st.target_x - Pre.center_x = 150 /\ st.target_y - Pre.center_y = -100
    /\ MovedX = 83 /\ MovedY = -55


\* ------------------------------------------------------- embedded metadata
\* the frame carried exactly one cursor metadata with numeric x and y
OneCursorMeta ==
    /\ Processed /\ cfg.follow_mouse
    /\ Len(LastFrame.metas) = 1
    /\ LastFrame.metas[1].looks_cursor /\ IsSome(LastFrame.metas[1].xy)

MetaXY == Unwrap(LastFrame.metas[1].xy)
MetaIsNormalized == MetaXY.x >= 0 /\ MetaXY.x <= Sub /\ MetaXY.y >= 0 /\ MetaXY.y <= Sub
MetaIsAbsolute ==
    /\ MetaXY.x >= 0 /\ MetaXY.x <= Px(LastFrame.w)
    /\ MetaXY.y >= 0 /\ MetaXY.y <= Px(LastFrame.h)

CursorIsClamped(x, y) ==
    /\ st.cursor_x = Clamp(x, 0, Px(LastFrame.w - 1))
    /\ st.cursor_y = Clamp(y, 0, Px(LastFrame.h - 1))

\* C11: a metadata value (x, y) with both components in [0,1] is normalized
\* and the sample is (x*width, y*height); otherwise a value within
\* [0,width] x [0,height] is the sample as absolute pixels; otherwise it is
\* rejected and the aggregator goes on to the next source.
MetaNormalizedFirst ==
    OneCursorMeta =>
        IF MetaIsNormalized
        THEN last.used = "meta"
             /\ CursorIsClamped(MetaXY.x * LastFrame.w, MetaXY.y * LastFrame.h)
        ELSE IF MetaIsAbsolute
        THEN last.used = "meta" /\ CursorIsClamped(MetaXY.x, MetaXY.y)
        ELSE last.used # "meta"

\* what read_xy_from_structure does: the absolute range is tested first and
\* contains [0,1] x [0,1], so no value is ever scaled
MetaAbsoluteFirst ==
    OneCursorMeta =>
        IF MetaIsAbsolute
        THEN last.used = "meta" /\ CursorIsClamped(MetaXY.x, MetaXY.y)
        ELSE last.used # "meta"


\* ----------------------------------------------------------- fatal errors
\* C12: a frame whose width or height is smaller than the requested output
\* fails the callback before anything is changed: FollowState, the delta
\* accumulator, the input-frame counter and the emission counter keep their
\* values, nothing is pushed downstream, and the session ends.
TooSmall(f) == f.w < cfg.width \/ f.h < cfg.height

SizeErrorStep ==
    /\ last'.result = "size_error" <=> TooSmall(Unwrap(last'.frame))
    /\ last'.result = "size_error" =>
          /\ st' = st /\ deltas' = deltas
          /\ input_frame_count' = input_frame_count /\ out_idx' = out_idx
          /\ out_log' = out_log /\ out_data' = out_data
          /\ session' = "failed"

SizeErrorChangesNothing == [][frames' # frames => SizeErrorStep]_vars

\* a too small frame arrived after the session had moved the cursor, emitted
\* a frame and counted two frames in
SizeErrorAfterProgress ==
    /\ last.result = "size_error" /\ session = "failed"
    /\ cfg.bin = "test" /\ cfg.frame_skip > 0
    /\ input_frame_count = 2 /\ out_idx = 1 /\ Len(out_log) = 1
    /\ st = Pre /\ st.cursor_x # InitialCenter(cfg.x, cfg.width)

\* C13: when for some output row the source byte range plane_offset +
\* (crop_y+r)*stride + crop_x*4 .. + out_w*4 exceeds the buffer length, the
\* frame fails with a bounds error value, in vp-sndr and in vp-test; nothing
\* is pushed downstream and no emission index or timestamp is consumed.
RowEnd(r) ==
    PlaneOffset + ((last.crop_y + r) * PlaneStride) + (last.crop_x * 4) + (cfg.width * 4)

RangeExceedsBuffer ==
    /\ Processed
    /\ cfg.bin = "test" => last.icnt % KeepRatio = 0
    /\ \E r \in 0..(cfg.height - 1) : RowEnd(r) > LastFrame.len

BoundsErrorStep ==
    RangeExceedsBuffer' =>
        /\ last'.result = "bounds_error"
        /\ session' = "failed"
        /\ out_idx' = out_idx /\ last'.stamp = None
        /\ out_log' = out_log /\ out_data' = out_data

BoundsErrorIsReturned == [][frames' # frames => BoundsErrorStep]_vars

\* what vp-sndr does on such a frame; vp-test indexes the slice and panics
SndrBoundsErrorIsReturned ==
    [][(frames' # frames /\ cfg.bin = "sndr") => BoundsErrorStep]_vars

\* C14: a fatal error in frame processing (source smaller than the output,
\* crop range beyond the buffer) ends the session without retry: both
\* pipelines are set to Null and the process exits with a non-zero status,
\* in vp-sndr and in vp-test.
FatalFrame == last.result \in {"size_error", "bounds_error", "panic"}

FatalErrorExitsNonZero ==
    /\ FatalFrame => session = "failed"
    /\ (FatalFrame /\ IsSome(exit_code)) =>
          /\ pipelines = [input |-> "Null", output |-> "Null"]
          /\ Unwrap(exit_code) # ExitCode_SUCCESS

\* what holds in both binaries: no further frame, both pipelines torn down
FatalErrorTearsDown ==
    /\ FatalFrame => session = "failed"
    /\ (FatalFrame /\ IsSome(exit_code)) =>
          pipelines = [input |-> "Null", output |-> "Null"]
    /\ (FatalFrame /\ IsSome(exit_code) /\ cfg.bin = "test") =>
          Unwrap(exit_code) = ExitCode_FAILURE


\* ------------------------------------------------------ degraded operation
\* no source yielded a value on the latest frame: no plausible metadata, the
\* compositor cell absent or empty, the delta tracker absent or its accumulator zero
NoSourceFrame ==
    /\ Processed /\ cfg.follow_mouse
    /\ ~IsSome(extract_cursor_from_sample(LastFrame.metas, LastFrame.w, LastFrame.h))
    /\ ~(cfg.cosmic_cursor /\ IsSome(last.cell))
    /\ ~(cfg.mouse_deltas /\ LastAcc # [dx |-> 0, dy |-> 0])

ConvergedBefore == Pre.center_x = Pre.target_x /\ Pre.center_y = Pre.target_y
CursorWasInFrame ==
    /\ Pre.cursor_x >= 0 /\ Pre.cursor_x <= Px(LastFrame.w - 1)
    /\ Pre.cursor_y >= 0 /\ Pre.cursor_y <= Px(LastFrame.h - 1)

\* not an error: the frame is emitted, or decimated, unless the crop range or
\* the downstream push fails
NoCursorIsNoError ==
    \/ last.result \in {"pushed", "skipped"}
    \/ last.result = "push_error"
    \/ last.result \in {"bounds_error", "panic"} /\ RangeExceedsBuffer

\* C15: with follow enabled, a frame on which no cursor source yields a value
\* is processed without error and leaves the cursor where it was, and a
\* center that had converged to its target keeps its value.  As claimed: the
\* cursor after the frame equals the cursor before it.  As amended: it equals
\* the cursor before it clamped to the frame, and the converged center is kept
\* when the cursor before the frame lay inside the frame (a session whose
\* initial rectangle is centred outside the source starts with such a cursor).
CursorFrozenExactly ==
    NoSourceFrame =>
        /\ st.cursor_x = Pre.cursor_x /\ st.cursor_y = Pre.cursor_y
        /\ NoCursorIsNoError
        /\ ConvergedBefore => CenterKept

CursorFrozenInFrame ==
    NoSourceFrame =>
        /\ CursorIsClamped(Pre.cursor_x, Pre.cursor_y)
        /\ CursorWasInFrame => (st.cursor_x = Pre.cursor_x /\ st.cursor_y = Pre.cursor_y)
        /\ NoCursorIsNoError
        /\ (ConvergedBefore /\ CursorWasInFrame) =>
              (CenterKept /\ st.center_x = st.target_x /\ st.center_y = st.target_y)

\* after metadata had moved the cursor and the center had reached its target,
\* a frame without any cursor source left cursor and center where they were
HeldAfterSourcesWentAway ==
    /\ NoSourceFrame /\ last.result = "pushed"
    /\ frames >= 2
    /\ Pre.cursor_x # InitialCenter(cfg.x, cfg.width)
    /\ Pre.center_x # InitialCenter(cfg.x, cfg.width)
    /\ ConvergedBefore /\ CenterKept
    /\ st.cursor_x = Pre.cursor_x /\ st.cursor_y = Pre.cursor_y


\* ---------------------------------------------------------- raw-input deltas
\* C16: a frame that uses the raw-input delta source reads and zeroes the
\* accumulator in one step: the new cursor is clamp(previous cursor +
\* accumulated (dx, dy)) and the accumulator is (0, 0) right after the frame.
DrainStep ==
    last'.used = "delta" =>
        /\ st'.cursor_x = Clamp(st.cursor_x + deltas.dx, 0, Px(Unwrap(last'.frame).w - 1))
        /\ st'.cursor_y = Clamp(st.cursor_y + deltas.dy, 0, Px(Unwrap(last'.frame).h - 1))
        /\ deltas' = [dx |-> 0, dy |-> 0]

DrainReadsAndZeroes == [][frames' # frames => DrainStep]_vars

\* a second drain of 3 px pushed the cursor against the right edge of the frame
DrainedIntoTheEdge ==
    /\ last.used = "delta" /\ Processed
    /\ LastAcc.dx = Px(3) /\ Pre.cursor_x = Px(7)
    /\ st.cursor_x = Px(LastFrame.w - 1)
    /\ deltas = [dx |-> 0, dy |-> 0]

\* C17: under every interleaving of the poller thread and the callback's
\* drains each relative-motion event counts exactly once: per axis, what the
\* poller has read and the aggregator has not yet added to the cursor is
\* exactly the content of the accumulator.
MotionCountedOnce == unapplied = deltas

\* motion was drained, and more arrived on both axes after the drain
MotionAfterDrain ==
    /\ last.used = "delta" /\ LastAcc.dx # 0 /\ LastAcc.dy # 0
    /\ deltas.dx # 0 /\ deltas.dy # 0
    /\ unapplied = deltas


\* ------------------------------------------------------------ retargeting
SndrFollowFrame == Processed /\ cfg.bin = "sndr" /\ cfg.follow_mouse

\* the target of one axis: the cursor pulled back to the nearest deadzone edge
\* when it is outside the deadzone, the center when it is inside
PulledBack(cursor, center, half) ==
    CASE cursor < center - half -> cursor + half
      [] cursor > center + half -> cursor - half
      [] OTHER -> center

ExpectedTargetX ==
    IF cfg.deadzone = 0 THEN st.cursor_x
    ELSE PulledBack(st.cursor_x, Pre.center_x, (Px(cfg.width) * cfg.deadzone) \div 200)

ExpectedTargetY ==
    IF cfg.deadzone = 0 THEN st.cursor_y
    ELSE PulledBack(st.cursor_y, Pre.center_y, (Px(cfg.height) * cfg.deadzone) \div 200)

OnTarget == st.center_x = st.target_x /\ st.center_y = st.target_y

\* C18: in vp-sndr with follow enabled, when the clamped cursor moved by more
\* than 0.25 px on either axis since the previous frame the target becomes,
\* per axis, the cursor pulled back to the nearest deadzone edge if it is
\* outside the deadzone and the current center if it is inside (the cursor
\* itself when deadzone_pct = 0), and the controller enters FOLLOWING (at the
\* end of the frame it is still FOLLOWING or has settled on the new target);
\* when the cursor did not move by more than 0.25 px the target is kept and
\* the controller does not enter FOLLOWING.
RetargetRule ==
    SndrFollowFrame =>
        IF \/ Abs(st.cursor_x - Pre.cursor_x) > 25
           \/ Abs(st.cursor_y - Pre.cursor_y) > 25
        THEN /\ st.target_x = ExpectedTargetX /\ st.target_y = ExpectedTargetY
             /\ st.is_lerping \/ OnTarget
        ELSE /\ st.target_x = Pre.target_x /\ st.target_y = Pre.target_y
             /\ st.is_lerping => Pre.is_lerping
             /\ ~Pre.is_lerping => CenterKept

\* the cursor left the deadzone on the x axis only: the target is pulled back
\* on x, stays on the center on y, and the controller is FOLLOWING
RetargetedOnOneAxis ==
    /\ SndrFollowFrame /\ cfg.deadzone > 0 /\ CursorChanged
    /\ st.target_x # Pre.center_x /\ st.target_x # st.cursor_x
    /\ st.target_y = Pre.center_y /\ st.cursor_y # Pre.center_y
    /\ st.is_lerping


\* ------------------------------------------------------- NOT_FOLLOWING
\* C19: after every frame in vp-sndr, whenever the controller is in
\* NOT_FOLLOWING the target equals the center on both axes; hence a frame that
\* starts in NOT_FOLLOWING with a stationary cursor, or with a cursor inside
\* the deadzone, leaves the center where it is.
NotFollowingIsOnTarget ==
    cfg.bin = "sndr" =>
        /\ ~st.is_lerping => OnTarget
        /\ (SndrFollowFrame /\ ~Pre.is_lerping /\ (~CursorChanged \/ DeadzoneFrame)) =>
              CenterKept

\* a 0.1 s step ended within the settle distance: the controller left
\* FOLLOWING with the center moved onto the target
SettledOntoTarget ==
    /\ SndrFollowFrame /\ last.dt = USEC_PER_SEC \div 10
    /\ Pre.is_lerping /\ ~st.is_lerping
    /\ ~CursorChanged
    /\ ~CenterKept /\ OnTarget


\* ------------------------------------------------------------- settling
TargetDx == st.target_x - st.center_x
TargetDy == st.target_y - st.center_y

\* dx * dx + dy * dy <= 0.75 * 0.75, in position units
WithinSettle(dx, dy) ==
    /\ Abs(dx) <= 75 /\ Abs(dy) <= 75
    /\ (dx * dx) + (dy * dy) <= 5625

\* frames at least 0.1 s apart at smoothing 8: alpha >= 1/2
SteadyFrames == \A dt \in DtsOf(cfg) : cfg.smoothing * dt >= 800000

\* after a vp-sndr frame:
\*  - FOLLOWING is never left standing within the settle distance of the target,
\*    and outside FOLLOWING the center is exactly the target;
\*  - a FOLLOWING frame whose cursor did not change either settles or stays
\*    FOLLOWING with the same target and no greater distance on either axis, at
\*    most half of it (to 0.01 px) when alpha >= 1/2;
\*  - a NOT_FOLLOWING frame whose cursor did not change stays NOT_FOLLOWING
\*    with the center where it was.
SettleStep ==
    (cfg.bin = "sndr" /\ cfg.follow_mouse) =>
        /\ st.is_lerping => ~WithinSettle(TargetDx, TargetDy)
        /\ ~st.is_lerping => OnTarget
        /\ (SndrFollowFrame /\ ~CursorChanged /\ Pre.is_lerping /\ st.is_lerping) =>
              /\ st.target_x = Pre.target_x /\ st.target_y = Pre.target_y
              /\ Abs(TargetDx) <= Abs(Pre.target_x - Pre.center_x)
              /\ Abs(TargetDy) <= Abs(Pre.target_y - Pre.center_y)
              /\ cfg.smoothing * EffectiveDt(last.dt) >= 800000 =>
                    /\ 2 * Abs(TargetDx) <= Abs(Pre.target_x - Pre.center_x) + 1
                    /\ 2 * Abs(TargetDy) <= Abs(Pre.target_y - Pre.center_y) + 1
        /\ (SndrFollowFrame /\ ~CursorChanged /\ ~Pre.is_lerping) =>
              ~st.is_lerping /\ CenterKept

\* FOLLOWING after n frames, within 10 px of the target on each axis, in a
\* session whose frames are at least 0.1 s apart
FollowingAt(n) ==
    /\ cfg.bin = "sndr" /\ cfg.follow_mouse /\ SteadyFrames
    /\ frames = n /\ st.is_lerping
    /\ Abs(TargetDx) <= 1000 /\ Abs(TargetDy) <= 1000

\* the controller left FOLLOWING, or a later frame moved the cursor again, or
\* frames stopped arriving
LeftFollowingAfter(n) ==
    \/ ~st.is_lerping
    \/ frames > n /\ CursorChanged
    \/ session # "running"

\* C20: with follow enabled and smoothing > 0, once the cursor sample stops
\* changing by more than the epsilon and frames keep arriving, the controller
\* eventually leaves FOLLOWING: when the squared distance from center to
\* target is within the settle threshold the center becomes exactly the
\* target and the state is NOT_FOLLOWING, where it stays until the cursor
\* moves again.
SettlesEventually ==
    /\ []SettleStep
    /\ \A n \in 0..(MaxFrames - 4) : FollowingAt(n) ~> LeftFollowingAfter(n)

\* a frame with an unchanged cursor, 0.1 s after the one before, ended a
\* FOLLOWING phase that was still outside the settle distance when it began:
\* the frame moved the center and snapped it onto the target
SettledAfterStandstill ==
    /\ SndrFollowFrame /\ SteadyFrames
    /\ frames >= 3
    /\ Pre.is_lerping /\ ~st.is_lerping /\ ~CursorChanged
    /\ ~CenterKept /\ OnTarget
    /\ last.dt = USEC_PER_SEC \div 10
    /\ WithinSettle(Pre.target_x - Pre.center_x, Pre.target_y - Pre.center_y) = FALSE

\* every frame step is a callback run and the callback can run whenever a
\* frame is due
FrameDeliveredIsNewSample ==
    [][(frames' # frames) <=> (FrameDelivered /\ NewSample)]_vars


\* ------------------------------------------------------- stored center
\* C21: after every frame the center kept in FollowState for the next frame
\* satisfies out_w/2 <= center_x <= src_w - out_w/2 and out_h/2 <= center_y <=
\* src_h - out_h/2: a center that would give an out-of-range origin is clamped
\* and not carried into the next frame.
CenterInRange ==
    Processed =>
        /\ (Sub \div 2) * cfg.width <= st.center_x
        /\ st.center_x <= Sub * LastFrame.w - (Sub \div 2) * cfg.width
        /\ (Sub \div 2) * cfg.height <= st.center_y
        /\ st.center_y <= Sub * LastFrame.h - (Sub \div 2) * cfg.height

\* what the callbacks do instead: the clamp is applied to the origin of the
\* frame only, the stored center stays where the lerp step left it
OriginClampedCenterKept ==
    (Processed /\ last.result # "bounds_error") =>
        /\ last.crop_x = CropOrigin(st.center_x, cfg.width, LastFrame.w)
        /\ last.crop_y = CropOrigin(st.center_y, cfg.height, LastFrame.h)


\* ------------------------------------------------------ lock-level view
\* The same three contexts, one statement at a time: every Mutex::lock, every
\* guard drop, every blocking call.  Of the data only the two shared cells are
\* kept; the follow controller, the pacer and the cropper are the frame-level
\* operators above and appear here as single statements.
LockSessions ==
    { Config("sndr", "locks", 2, 2, 4, 2, 30, 0, TRUE, 8, 50, TRUE, TRUE),
      Config("test", "locks", 2, 2, 4, 2, 30, 1, TRUE, 8, 0, TRUE, TRUE),
      Config("test", "locks", 2, 2, 4, 2, 30, 1, TRUE, 8, 0, FALSE, TRUE) }

\* a mutex that excludes nobody
FreeAlways(l) == TRUE

Free(l) == \A t \in Threads : l \notin held[t]

Goto(t, to) == pc' = [pc EXCEPT ![t] = to]

\* Mutex::lock: the thread waits until no guard of the mutex exists
Acquire(t, l, to) ==
    /\ pc[t] = L("lock", l)
    /\ Free(l)
    /\ held' = [held EXCEPT ![t] = @ \cup {l}]
    /\ Goto(t, to)

\* the guard goes out of scope
Release(t, l, to) ==
    /\ pc[t] = L("unlock", l)
    /\ held' = [held EXCEPT ![t] = @ \ {l}]
    /\ Goto(t, to)

At_(t, op) == pc[t] = L(op, "")

FrameLevelUnchanged ==
    UNCHANGED <<cfg, st, input_frame_count, out_idx, session, frames, last, out_log,
                out_data, unapplied, pipelines, exit_code, saved, send_cfg>>

\* vp-sndr looks at the cursor sources only with --follow-mouse; vp-test's
\* run_record_follow_live always does
ReadsSources(c) == c.bin = "test" \/ c.follow_mouse

\* new_sample up to the FollowState lock: pull_sample, caps, size check
CbPullSample ==
    /\ At_("callback", "wait_sample")
    /\ Goto("callback", L("lock", "follow_state"))
    /\ UNCHANGED <<held, loc, cosmic_xy, deltas>> /\ FrameLevelUnchanged

CbLockFollowState ==
    /\ Acquire("callback", "follow_state", L("extract", ""))
    /\ UNCHANGED <<loc, cosmic_xy, deltas>> /\ FrameLevelUnchanged

\* extract_cursor_from_sample and the choice of the next source
CbExtract ==
    /\ At_("callback", "extract")
    /\ \E f \in FramesOf(cfg) :
         LET used == ReadsSources(cfg) /\ IsSome(extract_cursor_from_sample(f.metas, f.w, f.h))
         IN  /\ loc' = [loc EXCEPT !.used_meta = used, !.used_cosmic = FALSE, !.read = None]
             /\ Goto("callback",
                     IF ~ReadsSources(cfg) \/ used THEN L("follow", "")
                     ELSE IF cfg.cosmic_cursor THEN L("lock", "cosmic_xy")
                     ELSE IF cfg.mouse_deltas THEN L("lock", "deltas")
                     ELSE L("follow", ""))
    /\ UNCHANGED <<held, cosmic_xy, deltas>> /\ FrameLevelUnchanged

CbLockCosmic ==
    /\ Acquire("callback", "cosmic_xy", L("read", "cosmic_xy"))
    /\ UNCHANGED <<loc, cosmic_xy, deltas>> /\ FrameLevelUnchanged

\* if let Some((mx, my)) = *guard
CbReadCosmic ==
    /\ pc["callback"] = L("read", "cosmic_xy")
    /\ loc' = [loc EXCEPT !.read = cosmic_xy, !.used_cosmic = IsSome(cosmic_xy)]
    /\ Goto("callback", L("unlock", "cosmic_xy"))
    /\ UNCHANGED <<held, cosmic_xy, deltas>> /\ FrameLevelUnchanged

\* a callback that keeps the compositor cell's guard until the end of the frame
CbKeepsCosmic ==
    /\ pc["callback"] = L("unlock", "cosmic_xy")
    /\ Goto("callback", IF ~loc.used_cosmic /\ cfg.mouse_deltas THEN L("lock", "deltas")
                        ELSE L("follow", ""))
    /\ UNCHANGED <<held, loc, cosmic_xy, deltas>> /\ FrameLevelUnchanged

CbUnlockCosmic ==
    /\ Release("callback", "cosmic_xy",
               IF ~loc.used_cosmic /\ cfg.mouse_deltas THEN L("lock", "deltas")
               ELSE L("follow", ""))
    /\ UNCHANGED <<loc, cosmic_xy, deltas>> /\ FrameLevelUnchanged

CbLockDeltas ==
    /\ Acquire("callback", "deltas", L("drain", "deltas"))
    /\ UNCHANGED <<loc, cosmic_xy, deltas>> /\ FrameLevelUnchanged

\* st.cursor += d; d = (0.0, 0.0)
CbDrain ==
    /\ pc["callback"] = L("drain", "deltas")
    /\ deltas' = [dx |-> 0, dy |-> 0]
    /\ Goto("callback", L("unlock", "deltas"))
    /\ UNCHANGED <<held, loc, cosmic_xy>> /\ FrameLevelUnchanged

CbUnlockDeltas ==
    /\ Release("callback", "deltas", L("follow", ""))
    /\ UNCHANGED <<loc, cosmic_xy, deltas>> /\ FrameLevelUnchanged

\* clamp, retarget, lerp, crop origin.  vp-test writes to stderr in between:
\* log_sample_meta_once on the first frame, follow_state / follow_tick lines
\* when the state flips or the sample interval has passed
CbFollow ==
    /\ At_("callback", "follow")
    /\ \E logs \in (IF cfg.bin # "test" THEN {FALSE}
                     ELSE IF ~loc.logged_meta_probe THEN {TRUE} ELSE BOOLEAN) :
         Goto("callback", IF logs THEN L("eprintln", "") ELSE L("unlock", "follow_state"))
    /\ UNCHANGED <<held, loc, cosmic_xy, deltas>> /\ FrameLevelUnchanged

CbEprintln ==
    /\ At_("callback", "eprintln")
    /\ loc' = [loc EXCEPT !.logged_meta_probe = TRUE]
    /\ Goto("callback", L("unlock", "follow_state"))
    /\ UNCHANGED <<held, cosmic_xy, deltas>> /\ FrameLevelUnchanged

CbUnlockFollowState ==
    /\ Release("callback", "follow_state",
               IF cfg.bin = "test" THEN L("lock", "input_frame_count") ELSE L("crop", ""))
    /\ UNCHANGED <<loc, cosmic_xy, deltas>> /\ FrameLevelUnchanged

CbLockInputFrameCount ==
    /\ Acquire("callback", "input_frame_count", L("should_emit", "input_frame_count"))
    /\ UNCHANGED <<loc, cosmic_xy, deltas>> /\ FrameLevelUnchanged

\* idx = *c; *c += 1; idx % (frame_skip + 1) == 0
CbShouldEmit ==
    /\ pc["callback"] = L("should_emit", "input_frame_count")
    /\ \E e \in (IF cfg.frame_skip = 0 THEN {TRUE} ELSE BOOLEAN) :
         loc' = [loc EXCEPT !.should_emit = e]
    /\ Goto("callback", L("unlock", "input_frame_count"))
    /\ UNCHANGED <<held, cosmic_xy, deltas>> /\ FrameLevelUnchanged

CbUnlockInputFrameCount ==
    /\ Release("callback", "input_frame_count",
               IF loc.should_emit THEN L("crop", "") ELSE L("wait_sample", ""))
    /\ UNCHANGED <<loc, cosmic_xy, deltas>> /\ FrameLevelUnchanged

\* the row loop
CbCrop ==
    /\ At_("callback", "crop")
    /\ Goto("callback", L("lock", "out_idx"))
    /\ UNCHANGED <<held, loc, cosmic_xy, deltas>> /\ FrameLevelUnchanged

CbLockOutIdx ==
    /\ Acquire("callback", "out_idx", L("stamp", "out_idx"))
    /\ UNCHANGED <<loc, cosmic_xy, deltas>> /\ FrameLevelUnchanged

\* v = *c; *c += 1
CbStamp ==
    /\ pc["callback"] = L("stamp", "out_idx")
    /\ Goto("callback", L("unlock", "out_idx"))
    /\ UNCHANGED <<held, loc, cosmic_xy, deltas>> /\ FrameLevelUnchanged

CbUnlockOutIdx ==
    /\ Release("callback", "out_idx", L("push_buffer", ""))
    /\ UNCHANGED <<loc, cosmic_xy, deltas>> /\ FrameLevelUnchanged

\* appsrc.push_buffer returns
CbPushBuffer ==
    /\ At_("callback", "push_buffer")
    /\ Goto("callback", L("wait_sample", ""))
    /\ UNCHANGED <<held, loc, cosmic_xy, deltas>> /\ FrameLevelUnchanged

\* blocking_dispatch delivers a cursor_position event to the handler
CwDispatch ==
    /\ cfg.cosmic_cursor
    /\ At_("compositor", "blocking_dispatch")
    /\ \E e \in CosmicEventsOf(cfg) : loc' = [loc EXCEPT !.event = Some(e)]
    /\ Goto("compositor", L("lock", "cosmic_xy"))
    /\ UNCHANGED <<held, cosmic_xy, deltas>> /\ FrameLevelUnchanged

CwLock ==
    /\ Acquire("compositor", "cosmic_xy", L("write_x", "cosmic_xy"))
    /\ UNCHANGED <<loc, cosmic_xy, deltas>> /\ FrameLevelUnchanged

\* *cursor_xy = Some((x as f64, y as f64)) is not one store: first half
CwWriteX ==
    /\ pc["compositor"] = L("write_x", "cosmic_xy")
    /\ cosmic_xy' = Some(At(Px(Unwrap(loc.event).x),
                            IF IsSome(cosmic_xy) THEN Unwrap(cosmic_xy).y ELSE 0))
    /\ Goto("compositor", L("write_y", "cosmic_xy"))
    /\ UNCHANGED <<held, loc, deltas>> /\ FrameLevelUnchanged

\* second half: the assignment is complete
CwWriteY ==
    /\ pc["compositor"] = L("write_y", "cosmic_xy")
    /\ cosmic_xy' = Some(At(Px(Unwrap(loc.event).x), Px(Unwrap(loc.event).y)))
    /\ loc' = [loc EXCEPT !.completed = cosmic_xy']
    /\ Goto("compositor", L("unlock", "cosmic_xy"))
    /\ UNCHANGED <<held, deltas>> /\ FrameLevelUnchanged

CwUnlock ==
    /\ Release("compositor", "cosmic_xy", L("blocking_dispatch", ""))
    /\ loc' = [loc EXCEPT !.event = None]
    /\ UNCHANGED <<cosmic_xy, deltas>> /\ FrameLevelUnchanged

\* dev.fetch_events yields a relative-motion event
PwFetchEvents ==
    /\ cfg.mouse_deltas
    /\ At_("poller", "fetch_events")
    /\ \E e \in RelEventsOf(cfg) :
         /\ Abs(deltas.dx + Px(e.v)) <= Px(MaxAcc)
         /\ Abs(deltas.dy + Px(e.v)) <= Px(MaxAcc)
         /\ loc' = [loc EXCEPT !.rel = Some(e)]
    /\ Goto("poller", L("lock", "deltas"))
    /\ UNCHANGED <<held, cosmic_xy, deltas>> /\ FrameLevelUnchanged

PwLock ==
    /\ Acquire("poller", "deltas", L("add", "deltas"))
    /\ UNCHANGED <<loc, cosmic_xy, deltas>> /\ FrameLevelUnchanged

\* d.0 += v as f64 / d.1 += v as f64
PwAdd ==
    /\ pc["poller"] = L("add", "deltas")
    /\ deltas' = IF Unwrap(loc.rel).axis = "REL_X"
                  THEN [deltas EXCEPT !.dx = @ + Px(Unwrap(loc.rel).v)]
                  ELSE [deltas EXCEPT !.dy = @ + Px(Unwrap(loc.rel).v)]
    /\ Goto("poller", L("unlock", "deltas"))
    /\ UNCHANGED <<held, loc, cosmic_xy>> /\ FrameLevelUnchanged

\* the next event of the batch, or the end of the batch and the 2 ms sleep
PwUnlock ==
    /\ \E to \in {L("fetch_events", ""), L("sleep", "")} : Release("poller", "deltas", to)
    /\ loc' = [loc EXCEPT !.rel = None]
    /\ UNCHANGED <<cosmic_xy, deltas>> /\ FrameLevelUnchanged

PwSleep ==
    /\ At_("poller", "sleep")
    /\ Goto("poller", L("fetch_events", ""))
    /\ UNCHANGED <<held, loc, cosmic_xy, deltas>> /\ FrameLevelUnchanged

CallbackStep ==
    \/ CbPullSample \/ CbLockFollowState \/ CbExtract
    \/ CbLockCosmic \/ CbReadCosmic \/ CbUnlockCosmic
    \/ CbLockDeltas \/ CbDrain \/ CbUnlockDeltas
    \/ CbFollow \/ CbEprintln \/ CbUnlockFollowState
    \/ CbLockInputFrameCount \/ CbShouldEmit \/ CbUnlockInputFrameCount
    \/ CbCrop \/ CbLockOutIdx \/ CbStamp \/ CbUnlockOutIdx \/ CbPushBuffer

\* the handler once an event was delivered
CompositorStep == CwLock \/ CwWriteX \/ CwWriteY \/ CwUnlock

\* the poller once an event was fetched
PollerStep == PwLock \/ PwAdd \/ PwUnlock \/ PwSleep

LockNext == CallbackStep \/ CwDispatch \/ CompositorStep \/ PwFetchEvents \/ PollerStep

\* Every thread that can run does run; a thread waiting in Mutex::lock gets the
\* mutex when it is free again and again (the workers release theirs after one
\* assignment and then block in dispatch, fetch or sleep).
LockSpec ==
    /\ InitWith(LockSessions)
    /\ [][LockNext]_vars
    /\ SF_vars(CallbackStep) /\ SF_vars(CompositorStep) /\ SF_vars(PollerStep)


\* ------------------------------------------------- locks and blocking calls
\* statements that may block on something other than a mutex
BlockingCalls == {"eprintln", "push_buffer", "blocking_dispatch", "fetch_events", "sleep"}

\* what a worker does while it holds its cell's guard
WorkerCritical == {"write_x", "write_y", "add", "unlock"}

\* C22: no lock is held across a blocking call: the callback holds no guard
\* when it pushes downstream and does no blocking I/O while it holds the
\* FollowState guard; a worker holds its cell's guard only for the single
\* assignment or addition, never while dispatching, reading devices or
\* sleeping.
NoLockAcrossBlockingCall ==
    /\ \A t \in Threads : pc[t].op \in BlockingCalls => held[t] = {}
    /\ \A t \in {"compositor", "poller"} :
          /\ held[t] # {} => pc[t].op \in WorkerCritical
          /\ held[t] \subseteq (IF t = "compositor" THEN {"cosmic_xy"} ELSE {"deltas"})

\* vp-sndr has no output statement inside the FollowState block
SndrNoLockAcrossBlockingCall == cfg.bin = "sndr" => NoLockAcrossBlockingCall


\* ------------------------------------------------------ who writes what
\* C23: FollowState and the frame counters change only on a frame step, one
\* frame at a time; a cursor_position event changes nothing but the
\* compositor cell, which then holds that event's position and nothing else;
\* a poller event changes nothing but the accumulator; the callback never
\* writes the compositor cell.
WritersKeepToTheirCell ==
    [][/\ frames' # frames => frames' = frames + 1
       /\ (st' # st \/ input_frame_count' # input_frame_count \/ out_idx' # out_idx)
             => frames' = frames + 1
       /\ frames' # frames => cosmic_xy' = cosmic_xy
       /\ cosmic_xy' # cosmic_xy =>
             /\ \E e \in CosmicEventsOf(cfg) : cosmic_xy' = Some(At(Px(e.x), Px(e.y)))
             /\ deltas' = deltas
       /\ (frames' = frames /\ deltas' # deltas) =>
             /\ cosmic_xy' = cosmic_xy
             /\ \E e \in RelEventsOf(cfg) :
                   \/ deltas' = [deltas EXCEPT !.dx = @ + Px(e.v)]
                   \/ deltas' = [deltas EXCEPT !.dy = @ + Px(e.v)]]_vars

\* both workers wrote their cell after the latest frame had drained the
\* accumulator and found the compositor cell empty; FollowState still is
\* what that frame left
WorkersWroteAfterFrame ==
    /\ frames >= 1 /\ last.used = "delta" /\ last.cell = None
    /\ IsSome(cosmic_xy)
    /\ deltas # [dx |-> 0, dy |-> 0]
    /\ st.cursor_x = ClampCursor(Drain(Pre, LastAcc, "delta").st, LastFrame.w,
                                 LastFrame.h).cursor_x


\* ------------------------------------------------------------ latest wins
\* the position pairs the compositor can report
CosmicPairs == {Some(At(Px(e.x), Px(e.y))) : e \in CosmicEventsOf(cfg)}

\* C24: the pair the aggregator reads from the compositor cell is exactly the
\* pair written by the most recent cursor_position event that completed
\* before the read (nothing if none completed); x and y come from the same
\* event under every interleaving, and what a completed event wrote stays in
\* the cell until the next event completes.
LatestWins ==
    /\ pc["callback"] \in {L("read", "cosmic_xy"), L("unlock", "cosmic_xy")} =>
          /\ cosmic_xy = loc.completed
          /\ cosmic_xy = None \/ cosmic_xy \in CosmicPairs
    /\ pc["callback"] = L("unlock", "cosmic_xy") =>
          /\ loc.read = loc.completed
          /\ loc.used_cosmic <=> IsSome(loc.completed)
    /\ Free("cosmic_xy") => cosmic_xy = loc.completed

\* the callback has read (7, 5) while the worker, holding the next event
\* (0, 0), waits for the mutex
ReadWhileWriterWaits ==
    /\ pc["callback"] = L("unlock", "cosmic_xy")
    /\ loc.read = Some(At(Px(7), Px(5)))
    /\ pc["compositor"] = L("lock", "cosmic_xy")
    /\ loc.event = Some(At(0, 0))


\* ------------------------------------------------- boundary hysteresis
\* the crop rectangle [left, left + out_w) x [top, top + out_h) of the center
\* the frame started with
RectLeft == Clamp(Pre.center_x - (Px(cfg.width) \div 2), 0, Px(LastFrame.w - cfg.width))
RectTop == Clamp(Pre.center_y - (Px(cfg.height) \div 2), 0, Px(LastFrame.h - cfg.height))

CursorInRect ==
    /\ RectLeft <= st.cursor_x /\ st.cursor_x < RectLeft + Px(cfg.width)
    /\ RectTop <= st.cursor_y /\ st.cursor_y < RectTop + Px(cfg.height)

CursorMoved == st.cursor_x # Pre.cursor_x \/ st.cursor_y # Pre.cursor_y

TestFollowFrame == Processed /\ cfg.bin = "test"

\* C25: in vp-test's boundary-hysteresis policy, after each frame follow is
\* active iff the clamped cursor lies outside the crop rectangle computed from
\* the center before the frame; while the cursor is inside, the target equals
\* the center and the center does not move; when it is outside and has moved,
\* or follow has just become active, the target is the cursor position.
BoundaryHysteresis ==
    TestFollowFrame =>
        /\ st.follow_active <=> ~CursorInRect
        /\ CursorInRect =>
              /\ st.target_x = Pre.center_x /\ st.target_y = Pre.center_y
              /\ CenterKept
        /\ (~CursorInRect /\ (CursorMoved \/ ~Pre.follow_active)) =>
              st.target_x = st.cursor_x /\ st.target_y = st.cursor_y
        /\ (~CursorInRect /\ ~CursorMoved /\ Pre.follow_active) =>
              st.target_x = Pre.target_x /\ st.target_y = Pre.target_y

\* follow was active and the cursor came back into the rectangle the center
\* had reached: follow went off with the target on the center
FollowWentOff ==
    /\ TestFollowFrame
    /\ Pre.follow_active /\ ~st.follow_active
    /\ CursorMoved /\ CursorInRect
    /\ Pre.target_x # Pre.center_x
    /\ OnTarget /\ CenterKept


\* ---------------------------------------------------------- stale motion
\* last.post is the accumulator as the latest frame left it, last.carried the
\* accumulator as the frame before it left it; what the poller added between
\* the two frames is the difference to what the latest frame found
MotionSincePreviousFrame ==
    [dx |-> LastAcc.dx - last.carried.dx, dy |-> LastAcc.dy - last.carried.dy]

DeltaFrame == Processed /\ last.used = "delta"

CursorMovedBy(m) ==
    /\ st.cursor_x = Clamp(Pre.cursor_x + m.dx, 0, Px(Max(LastFrame.w - 1, 0)))
    /\ st.cursor_y = Clamp(Pre.cursor_y + m.dy, 0, Px(Max(LastFrame.h - 1, 0)))

\* C26 as claimed: on a frame that falls back to the delta source the cursor
\* moves only by the motion that occurred since the previous frame.
OnlyRecentMotionApplied == DeltaFrame => CursorMovedBy(MotionSincePreviousFrame)

\* C26 as amended: a frame whose position came from metadata or from the
\* compositor leaves the accumulator as it found it, and a frame that falls
\* back to the delta source moves the cursor by everything accumulated since
\* the previous drain, motion from earlier frames included, then clamps it and
\* leaves the accumulator at zero.
UndrainedMotionApplied ==
    /\ (Processed /\ last.used \in {"meta", "cosmic"}) => last.post = LastAcc
    /\ DeltaFrame =>
          /\ CursorMovedBy(LastAcc)
          /\ last.post = [dx |-> 0, dy |-> 0]

\* the frame before left 3 px of motion in the accumulator, nothing was added
\* since, and this frame moved the cursor by those 3 px
StaleMotionApplied ==
    /\ DeltaFrame /\ frames >= 2
    /\ last.carried = [dx |-> Px(3), dy |-> 0]
    /\ LastAcc = last.carried
    /\ st.cursor_x = Pre.cursor_x + Px(3)


\* ------------------------------------------------------------- deadlock
\* the order in which the callback takes the mutexes
Rank(l) ==
    CASE l = "follow_state" -> 1
      [] l = "cosmic_xy" -> 2
      [] l = "deltas" -> 3
      [] l = "input_frame_count" -> 4
      [] l = "out_idx" -> 5

Requests(t, l) == pc[t] = L("lock", l)

\* the callback asks only for a mutex later in the order than those it holds;
\* a worker asks for its own cell only, holding nothing; nobody waits for a
\* mutex whose holder is itself waiting
LockOrder ==
    /\ \A l \in Locks : Requests("callback", l) => \A h \in held["callback"] : Rank(h) < Rank(l)
    /\ \A l \in Locks : Requests("compositor", l) => l = "cosmic_xy" /\ held["compositor"] = {}
    /\ \A l \in Locks : Requests("poller", l) => l = "deltas" /\ held["poller"] = {}
    /\ \A t, u \in Threads, l \in Locks :
          (Requests(t, l) /\ l \in held[u]) => pc[u].op # "lock"

SessionStarted == send_cfg # None
SendCfg == Unwrap(send_cfg)

\* the constraints parse_cli enforces on the arguments of `send`
SatisfiesSendConstraints(c) ==
    /\ c.width > 0 /\ c.height > 0
    /\ c.fps > 0
    /\ F64Lt(F64(0), c.smoothing)
    /\ F64Le(F64(0), c.deadzone) /\ F64Le(c.deadzone, F64(100))
    /\ c.bitrate_kbps > 0

\* C28: every session vp-sndr starts, from `send` arguments or from the saved
\* configuration via `run-saved`, runs with width > 0, height > 0, fps > 0,
\* smoothing > 0, 0 <= deadzone <= 100 and bitrate_kbps > 0.
SessionParametersValid == SessionStarted => SatisfiesSendConstraints(SendCfg)

\* what does hold: a session started by `send` passed every check of parse_cli,
\* and `run-saved` runs whatever load_config returned
SessionParametersAsLoaded ==
    [][(~SessionStarted /\ SessionStarted') =>
         \/ parse_cli(Unwrap(send_cfg')) = "Ok" /\ saved' = Unwrap(send_cfg')
         \/ Unwrap(send_cfg') = load_config(saved) /\ saved' = saved]_vars

\* a session running on a file written by hand
RunsUncheckedFile == SessionStarted /\ saved = SendCfg /\ parse_cli(SendCfg) # "Ok"

\* -------------------------------------------------------------- lerp steps
Between(a, v, b) == (a <= v /\ v <= b) \/ (b <= v /\ v <= a)
TargetKept == st.target_x = Pre.target_x /\ st.target_y = Pre.target_y

\* C29: a lerp step never overshoots or moves away from the target: the
\* blend factor satisfies 0 < alpha <= 1, on each axis the new center lies
\* between the old center and the target (inclusive), and the distance to the
\* target does not increase from one frame to the next while the target is
\* unchanged.
LerpNeverMovesAway ==
    LerpFrame =>
        /\ 0 < StepAlpha /\ StepAlpha <= AScale
        /\ Between(Pre.center_x, st.center_x, st.target_x)
        /\ Between(Pre.center_y, st.center_y, st.target_y)
        /\ TargetKept =>
              /\ Abs(st.target_x - st.center_x) <= Abs(Pre.target_x - Pre.center_x)
              /\ Abs(st.target_y - st.center_y) <= Abs(Pre.target_y - Pre.center_y)

\* with a smoothing that passed parse_cli's check the step is as claimed
CheckedLerpNeverMovesAway == cfg.smoothing > 0 => LerpNeverMovesAway

\* a frame that pushed the center away from a target it kept
MovedAwayFromTarget ==
    /\ LerpFrame /\ TargetKept /\ cfg.smoothing < 0
    /\ Abs(st.target_x - st.center_x) > Abs(Pre.target_x - Pre.center_x)

\* ------------------------------------------------- deadzone and the cursor
CursorInDeadzone ==
    /\ Abs(st.cursor_x - st.center_x) <= DeadzoneHalf(cfg.width, cfg.deadzone)
    /\ Abs(st.cursor_y - st.center_y) <= DeadzoneHalf(cfg.height, cfg.deadzone)

CursorStill == st.cursor_x = Pre.cursor_x /\ st.cursor_y = Pre.cursor_y

\* C30: in vp-sndr with follow enabled and deadzone_pct > 0, whenever a frame
\* ends in NOT_FOLLOWING the clamped cursor lies inside or on the deadzone
\* rectangle around the center, for every sequence of cursor samples,
\* including a cursor that moves by no more than 0.25 px per frame.
NotFollowingKeepsCursorInDeadzone ==
    (SndrFollowFrame /\ cfg.deadzone > 0 /\ ~st.is_lerping) => CursorInDeadzone

\* what the controller does keep: a frame on which the cursor moved by more
\* than the epsilon and that ends in NOT_FOLLOWING has the cursor inside or
\* on the rectangle
NotFollowingAfterRetarget ==
    (SndrFollowFrame /\ cfg.deadzone > 0 /\ ~st.is_lerping /\ CursorChanged) => CursorInDeadzone

\* a frame that left the cursor outside the rectangle of a resting center
CreptOutOfDeadzone ==
    /\ SndrFollowFrame /\ cfg.deadzone > 0 /\ ~Pre.is_lerping /\ ~st.is_lerping
    /\ ~CursorChanged /\ ~CursorStill
    /\ ~CursorInDeadzone

====
